---- MODULE Spec2Model ----
(***************************************************************************)
(* Model of the gfxreconstruct capture core, framework/encode/             *)
(* trace_manager.cpp: thread-id issuance, packet framing, the file write   *)
(* path under the file mutex, and the trim / capture-mode state machine;   *)
(* and of the meta-data name lookup of tools/capture-info.                 *)
(*                                                                         *)
(* The module holds several specifications over one set of variables:      *)
(*   SpecTid  thread-id issuance (TraceManager::ThreadData::GetThreadId)   *)
(*   SpecPkt  packet framing of one block, over bounded inputs             *)
(*   Spec     Initialize, the hooks of concurrent threads and EndFrame      *)
(*   SpecFrames  Initialize and EndFrame over every trim configuration     *)
(*   SpecMem  the memory hooks of one application thread                   *)
(*   SpecInst CreateInstance, CheckCreateInstanceStatus, DestroyInstance    *)
(*   SpecFlush page-guard flushes of longer lists of ranges                 *)
(*   SpecGuard every writer and memory hook across the capture modes        *)
(*   SpecTmpl  SetDescriptorUpdateTemplateInfo over bounded entry lists     *)
(*   SpecFree  the memory hooks with vkFreeMemory, every mapping extent    *)
(*   SpecInfo  capture-info's FileProcessorInfo::ProcessMetaData            *)
(* Each specification leaves the variables of the other parts untouched.   *)
(***************************************************************************)
EXTENDS Integers, Sequences, FiniteSets, TLC

\* ------------------------------------------------------------------------
\* Bounds of the model
\* ------------------------------------------------------------------------

\* Number of threads the process creates over its lifetime (SpecTid).
NumThreads == 3

\* Number of distinct OS thread ids the platform hands out (SpecTid).  The
\* platform guarantees an OS thread id to be unique among live threads only.
NumOsTids == 2

Threads == 1 .. NumThreads
OsTids  == 1 .. NumOsTids

NoThread == 0

\* ------------------------------------------------------------------------
\* State
\* ------------------------------------------------------------------------

VARIABLES
    \* --- thread-id issuance (ThreadData statics, trace_manager.cpp:40-42)
    thread_count_,   \* ThreadData::thread_count_
    id_map_,         \* ThreadData::id_map_: OS tid -> logical id, 0 = no entry
    count_lock_,     \* ThreadData::count_lock_: the holder, NoThread = free
    \* --- threads of the process, as the platform runs them
    life,            \* thread -> "new" | "alive" | "exited"
    ostid,           \* thread -> its OS thread id while alive (0 otherwise)
    thread_id_,      \* thread -> ThreadData::thread_id_, -1 = no ThreadData yet
    gpc,             \* thread -> position inside GetThreadId
    l_id,            \* thread -> GetThreadId local `id`
    l_tid,           \* thread -> GetThreadId local `tid`
    l_cnt,           \* thread -> value read by ++thread_count_
    \* --- history (not program state)
    obs_order,       \* OS tids in the order GetThreadId inserted them
    seen_ids         \* thread -> set of logical ids its accesses observed

tidVars == << thread_count_, id_map_, count_lock_, life, ostid, thread_id_,
              gpc, l_id, l_tid, l_cnt, obs_order, seen_ids >>

VARIABLES
    \* --- packet framing of one block (SpecPkt)
    framed           \* the last framing: its inputs and the writes it issued

pktVars == << framed >>

VARIABLES
    \* --- TraceManager members (Spec)
    status,               \* "constructed" | "ready" | "failed" (Initialize),
                          \* "deleted" (delete instance_)
    capture_mode_,        \* subset of {"Write", "Track"}; {} is kModeDisabled
    trim_enabled_,
    trim_ranges_,         \* sequence of [first, total]; total counts down
    trim_current_range_,  \* 0-based index into trim_ranges_
    current_frame_,
    compressor_,          \* TRUE when compressor_ != nullptr
    state_tracker_,       \* TRUE when state_tracker_ != nullptr
    file_stream_,         \* index into files, 0 when nullptr
    file_lock_,           \* holder of file_lock_, NoThread = free
    files,                \* every capture file created, in creation order
    \* --- per-thread data (ThreadData) and each thread's position
    call_id_,             \* thread -> ThreadData::call_id_
    param_len,            \* thread -> parameter_buffer_->GetDataSize()
    pc,                   \* thread -> position in the hook it runs
    pending,              \* thread -> writes left in its critical section
    fault,                \* a thread dereferenced a null file_stream_
    \* --- history (not program state)
    cfg_ranges,           \* trim_ranges as configured
    frame_no,             \* 1 + number of EndFrame calls returned
    open_failed,          \* some CreateCaptureFile failed
    activations,          \* the calls of ActivateTrimming so far
    ops                   \* thread -> the hook operations it has begun, in
                          \* order: [kind, call] (call: the id passed to
                          \* InitApiCallTrace, 0 for a metadata command)

modeVars == << capture_mode_, trim_enabled_, trim_ranges_, trim_current_range_,
               current_frame_, compressor_, state_tracker_ >>
streamVars == << file_stream_, files >>
threadVars == << call_id_, param_len >>
histVars == << cfg_ranges, frame_no, open_failed, activations >>

mainVars == << status, modeVars, streamVars, file_lock_, threadVars, pc,
               pending, fault, histVars, ops >>

\* Memory tracking: the configured mode and the page-guard manager singleton,
\* the DeviceMemoryWrapper objects, the set of mapped wrappers kept for the
\* unassisted mode, what the page-guard manager tracks, and the log of the
\* regions handed to WriteFillMemoryCmd; shim_call is the API call whose
\* PreProcess hook a thread has run last, host_ptr the pointer the last
\* successful vkMapMemory of a memory object handed to the application.
VARIABLES
    memory_tracking_mode_,
    page_guard_,
    wrappers,
    mapped_memory_,
    pg_tracked,
    pg_dirty,
    fill_log,
    shim_call,
    host_ptr

memCfg   == << memory_tracking_mode_, page_guard_ >>
memState == << wrappers, mapped_memory_, pg_tracked, pg_dirty, fill_log,
              shim_call, host_ptr >>
memVars  == << memCfg, memState >>

\* The singleton and its reference count (statics of TraceManager), each
\* thread's position in the instance calls, and history of those calls.
VARIABLES
    instance_,        \* TRUE when instance_ != nullptr
    instance_count_,  \* uint32_t, kept as the two's complement reading of its
                      \* 32 bits: a negative value is a count above 2^31 - 1
    instance_lock_,   \* holder of instance_lock_, NoThread = free
    inst_pc,          \* thread -> "idle" | "initialize" | "check"
    assert_failed,    \* an assert of the instance calls has aborted the process
    \* --- history (not program state)
    create_ret,       \* thread -> what its last CreateInstance returned
    inst_before,      \* thread -> << count, instance >> when its last
                      \* CreateInstance was entered
    inst_after,       \* thread -> << count, instance >> when it returned
    inst_calls,       \* thread -> CreateInstance and DestroyInstance calls made
    check_result      \* thread -> result of its last CheckCreateInstanceStatus

instVars == << instance_, instance_count_, instance_lock_, inst_pc,
               assert_failed, create_ret, inst_before, inst_after,
               inst_calls, check_result >>

\* The descriptor update template being created: the entries of its create
\* info, its wrapper's UpdateTemplateInfo, and the position of the thread in
\* SetDescriptorUpdateTemplateInfo.
VARIABLES
    create_info,      \* pDescriptorUpdateEntries: the entries read so far
    info,             \* wrapper->info
    tmpl_pc           \* "none" | "loop" | "done", or "aborted": assert(false)
                      \* has ended the process

tmplVars == << create_info, info, tmpl_pc >>

\* The capture-info tool: the meta-data block the file processor has read
\* and dispatched, what the base class returns for it, the name printed and
\* the value returned by FileProcessorInfo::ProcessMetaData.
VARIABLES
    meta_data_id,     \* format::MetaDataId of the block (uint32_t)
    base_result,      \* what FileProcessor::ProcessMetaData returns for it
    console,          \* the name written to the console for the last block
    info_return,      \* the value the last call returned
    info_pc           \* "read" | "meta", or "crashed": the out-of-bounds
                      \* read has ended the process

infoVars == << meta_data_id, base_result, console, info_return, info_pc >>

vars == << tidVars, pktVars, mainVars, memVars, instVars, tmplVars, infoVars >>

NoData == -1

\* ------------------------------------------------------------------------
\* Thread-id issuance: TraceManager::ThreadData::GetThreadId
\* ------------------------------------------------------------------------

TidInit ==
    /\ thread_count_ = 0
    /\ id_map_ = [o \in OsTids |-> 0]
    /\ count_lock_ = NoThread
    /\ life = [t \in Threads |-> "new"]
    /\ ostid = [t \in Threads |-> 0]
    /\ thread_id_ = [t \in Threads |-> NoData]
    /\ gpc = [t \in Threads |-> "idle"]
    /\ l_id = [t \in Threads |-> 0]
    /\ l_tid = [t \in Threads |-> 0]
    /\ l_cnt = [t \in Threads |-> 0]
    /\ obs_order = << >>
    /\ seen_ids = [t \in Threads |-> {}]

\* OS thread ids in use by live threads.
LiveOsTids == { ostid[t] : t \in { u \in Threads : life[u] = "alive" } }

\* The platform starts a thread and gives it an OS thread id no live thread has.
ThreadStart(t) ==
    /\ life[t] = "new"
    /\ \E o \in OsTids \ LiveOsTids :
           ostid' = [ostid EXCEPT ![t] = o]
    /\ life' = [life EXCEPT ![t] = "alive"]
    /\ UNCHANGED << thread_count_, id_map_, count_lock_, thread_id_, gpc, l_id,
                    l_tid, l_cnt, obs_order, seen_ids >>
    /\ UNCHANGED << pktVars, mainVars, memVars, instVars, tmplVars, infoVars >>

\* The thread ends; its thread_local ThreadData is destroyed and the platform
\* may hand its OS thread id to a later thread.
ThreadExit(t) ==
    /\ life[t] = "alive"
    /\ gpc[t] = "idle"
    /\ life' = [life EXCEPT ![t] = "exited"]
    /\ ostid' = [ostid EXCEPT ![t] = 0]
    /\ UNCHANGED << thread_count_, id_map_, count_lock_, thread_id_, gpc, l_id,
                    l_tid, l_cnt, obs_order, seen_ids >>
    /\ UNCHANGED << pktVars, mainVars, memVars, instVars, tmplVars, infoVars >>

\* A later access of a thread that has its ThreadData: reads thread_id_.
ThreadAccess(t) ==
    /\ life[t] = "alive"
    /\ gpc[t] = "idle"
    /\ thread_id_[t] # NoData
    /\ seen_ids' = [seen_ids EXCEPT ![t] = @ \cup {thread_id_[t]}]
    /\ UNCHANGED << thread_count_, id_map_, count_lock_, life, ostid,
                    thread_id_, gpc, l_id, l_tid, l_cnt, obs_order >>
    /\ UNCHANGED << pktVars, mainVars, memVars, instVars, tmplVars, infoVars >>

\* First access: the ThreadData constructor calls GetThreadId.
\*   format::ThreadId id = 0; uint64_t tid = GetCurrentThreadId();
GetThreadId_Enter(t) ==
    /\ life[t] = "alive"
    /\ gpc[t] = "idle"
    /\ thread_id_[t] = NoData
    /\ l_id' = [l_id EXCEPT ![t] = 0]
    /\ l_tid' = [l_tid EXCEPT ![t] = ostid[t]]
    /\ gpc' = [gpc EXCEPT ![t] = "lock"]
    /\ UNCHANGED << thread_count_, id_map_, count_lock_, life, ostid,
                    thread_id_, l_cnt, obs_order, seen_ids >>
    /\ UNCHANGED << pktVars, mainVars, memVars, instVars, tmplVars, infoVars >>

\* A mutex that excludes nobody.
CountLockFree_Broken(t) == TRUE

\* std::lock_guard<std::mutex> lock(count_lock_) can be entered.
CountLockFree(t) == count_lock_ = NoThread

\*   std::lock_guard<std::mutex> lock(count_lock_);
GetThreadId_Lock(t) ==
    /\ gpc[t] = "lock"
    /\ CountLockFree(t)
    /\ count_lock_' = t
    /\ gpc' = [gpc EXCEPT ![t] = "find"]
    /\ UNCHANGED << thread_count_, id_map_, life, ostid, thread_id_, l_id,
                    l_tid, l_cnt, obs_order, seen_ids >>
    /\ UNCHANGED << pktVars, mainVars, memVars, instVars, tmplVars, infoVars >>

\*   auto entry = id_map_.find(tid);
\*   if (entry != id_map_.end()) { id = entry->second; }
GetThreadId_Find(t) ==
    /\ gpc[t] = "find"
    /\ IF id_map_[l_tid[t]] # 0
       THEN /\ l_id' = [l_id EXCEPT ![t] = id_map_[l_tid[t]]]
            /\ gpc' = [gpc EXCEPT ![t] = "return"]
       ELSE /\ l_id' = l_id
            /\ gpc' = [gpc EXCEPT ![t] = "inc_read"]
    /\ UNCHANGED << thread_count_, id_map_, count_lock_, life, ostid,
                    thread_id_, l_tid, l_cnt, obs_order, seen_ids >>
    /\ UNCHANGED << pktVars, mainVars, memVars, instVars, tmplVars, infoVars >>

\*   id = ++thread_count_;   (the load)
GetThreadId_IncRead(t) ==
    /\ gpc[t] = "inc_read"
    /\ l_cnt' = [l_cnt EXCEPT ![t] = thread_count_]
    /\ gpc' = [gpc EXCEPT ![t] = "inc_write"]
    /\ UNCHANGED << thread_count_, id_map_, count_lock_, life, ostid,
                    thread_id_, l_id, l_tid, obs_order, seen_ids >>
    /\ UNCHANGED << pktVars, mainVars, memVars, instVars, tmplVars, infoVars >>

\*   id = ++thread_count_;   (the store and the assignment to id)
GetThreadId_IncWrite(t) ==
    /\ gpc[t] = "inc_write"
    /\ thread_count_' = l_cnt[t] + 1
    /\ l_id' = [l_id EXCEPT ![t] = l_cnt[t] + 1]
    /\ gpc' = [gpc EXCEPT ![t] = "insert"]
    /\ UNCHANGED << id_map_, count_lock_, life, ostid, thread_id_, l_tid,
                    l_cnt, obs_order, seen_ids >>
    /\ UNCHANGED << pktVars, mainVars, memVars, instVars, tmplVars, infoVars >>

\*   id_map_.insert(std::make_pair(tid, id));   (insert keeps an existing entry)
GetThreadId_Insert(t) ==
    /\ gpc[t] = "insert"
    /\ IF id_map_[l_tid[t]] = 0
       THEN /\ id_map_' = [id_map_ EXCEPT ![l_tid[t]] = l_id[t]]
            /\ obs_order' = Append(obs_order, l_tid[t])
       ELSE UNCHANGED << id_map_, obs_order >>
    /\ gpc' = [gpc EXCEPT ![t] = "return"]
    /\ UNCHANGED << thread_count_, count_lock_, life, ostid, thread_id_, l_id,
                    l_tid, l_cnt, seen_ids >>
    /\ UNCHANGED << pktVars, mainVars, memVars, instVars, tmplVars, infoVars >>

\*   return id;  (lock_guard released; the constructor stores thread_id_)
GetThreadId_Return(t) ==
    /\ gpc[t] = "return"
    /\ count_lock_' = IF count_lock_ = t THEN NoThread ELSE count_lock_
    /\ thread_id_' = [thread_id_ EXCEPT ![t] = l_id[t]]
    /\ seen_ids' = [seen_ids EXCEPT ![t] = @ \cup {l_id[t]}]
    /\ gpc' = [gpc EXCEPT ![t] = "idle"]
    /\ UNCHANGED << thread_count_, id_map_, life, ostid, l_id, l_tid, l_cnt,
                    obs_order >>
    /\ UNCHANGED << pktVars, mainVars, memVars, instVars, tmplVars, infoVars >>

TidNext ==
    \E t \in Threads :
        \/ ThreadStart(t)
        \/ ThreadExit(t)
        \/ ThreadAccess(t)
        \/ GetThreadId_Enter(t)
        \/ GetThreadId_Lock(t)
        \/ GetThreadId_Find(t)
        \/ GetThreadId_IncRead(t)
        \/ GetThreadId_IncWrite(t)
        \/ GetThreadId_Insert(t)
        \/ GetThreadId_Return(t)

\* ------------------------------------------------------------------------
\* File format: sizes of the header fields (format.h; packed, little-endian)
\* ------------------------------------------------------------------------

Sizeof_block_header      == 12   \* {type: u32, size: u64}
Sizeof_api_call_id       == 4
Sizeof_thread_id         == 8
Sizeof_uncompressed_size == 8
Sizeof_meta_data_type    == 4
Sizeof_memory_id         == 8
Sizeof_memory_offset     == 8
Sizeof_memory_size       == 8
Sizeof_surface_id        == 8
Sizeof_width             == 4
Sizeof_height            == 4

\* sizeof(format::FunctionCallHeader)
Sizeof_FunctionCallHeader ==
    Sizeof_block_header + Sizeof_api_call_id + Sizeof_thread_id

\* sizeof(format::CompressedFunctionCallHeader)
Sizeof_CompressedFunctionCallHeader ==
    Sizeof_block_header + Sizeof_api_call_id + Sizeof_thread_id
        + Sizeof_uncompressed_size

\* sizeof(format::DisplayMessageCommandHeader)
Sizeof_DisplayMessageCommandHeader ==
    Sizeof_block_header + Sizeof_meta_data_type + Sizeof_thread_id

\* sizeof(format::ResizeWindowCommand)
Sizeof_ResizeWindowCommand ==
    Sizeof_block_header + Sizeof_meta_data_type + Sizeof_thread_id
        + Sizeof_surface_id + Sizeof_width + Sizeof_height

\* sizeof(format::FillMemoryCommandHeader)
Sizeof_FillMemoryCommandHeader ==
    Sizeof_block_header + Sizeof_meta_data_type + Sizeof_thread_id
        + Sizeof_memory_id + Sizeof_memory_offset + Sizeof_memory_size

\* ------------------------------------------------------------------------
\* Packet framer: what each writer hands to file_stream_->Write
\* ------------------------------------------------------------------------

\* One file_stream_->Write of a block header struct.
\*   type  block_header.type        meta  meta_header.meta_data_type
\*   size  block_header.size        len   the number of bytes written
\*   tid   thread_id                f     the other header fields, in order
HeaderWrite(type, meta, size, tid, f, len) ==
    [ type |-> type, meta |-> meta, size |-> size, tid |-> tid, f |-> f,
      len |-> len, k |-> "hdr", src |-> "" ]

\* One file_stream_->Write of payload bytes taken from `src`.
DataWrite(src, len) ==
    [ type |-> "", meta |-> "", size |-> 0, tid |-> 0, f |-> << >>,
      len |-> len, k |-> "data", src |-> src ]

\* The compressed form is used although it is not smaller.
UseCompressed_NotStrict(installed, compressed_size, uncompressed_size) ==
    installed /\ 0 < compressed_size /\ compressed_size <= uncompressed_size

\* EndApiCallTrace / WriteFillMemoryCmd:
\*   (nullptr != compressor_) && (0 < compressed_size) &&
\*   (compressed_size < uncompressed_size)
UseCompressed(installed, compressed_size, uncompressed_size) ==
    installed /\ 0 < compressed_size /\ compressed_size < uncompressed_size

\* The thread id is left out of the packet size.
FunctionCallPacketSize_NoThreadId(data_size) ==
    Sizeof_api_call_id + data_size

\* EndApiCallTrace, uncompressed branch:
\*   packet_size += sizeof(api_call_id) + sizeof(thread_id) + data_size
FunctionCallPacketSize(data_size) ==
    Sizeof_api_call_id + Sizeof_thread_id + data_size

\* EndApiCallTrace, compressed branch:
\*   packet_size += sizeof(api_call_id) + sizeof(uncompressed_size) +
\*                  sizeof(thread_id) + compressed_size
CompressedFunctionCallPacketSize(compressed_size) ==
    Sizeof_api_call_id + Sizeof_uncompressed_size + Sizeof_thread_id
        + compressed_size

\* The two writes EndApiCallTrace issues in Write mode, for a parameter buffer
\* of uncompressed_size bytes and a compressor (when installed) that returned
\* compressed_size.
EndApiCallTrace_Writes(installed, uncompressed_size, compressed_size, call_id, tid) ==
    IF UseCompressed(installed, compressed_size, uncompressed_size)
    THEN << HeaderWrite("CompressedFunctionCallBlock", "",
                        CompressedFunctionCallPacketSize(compressed_size),
                        tid, << call_id, uncompressed_size >>,
                        Sizeof_CompressedFunctionCallHeader),
            DataWrite("compressed_buffer", compressed_size) >>
    ELSE << HeaderWrite("FunctionCallBlock", "",
                        FunctionCallPacketSize(uncompressed_size),
                        tid, << call_id >>, Sizeof_FunctionCallHeader),
            DataWrite("parameter_buffer", uncompressed_size) >>

\* WriteDisplayMessageCmd in Write mode: header, then the message bytes.
WriteDisplayMessageCmd_Writes(message_length, tid) ==
    << HeaderWrite("MetaDataBlock", "DisplayMessageCommand",
                   Sizeof_meta_data_type + Sizeof_thread_id + message_length,
                   tid, << >>, Sizeof_DisplayMessageCommandHeader),
       DataWrite("message", message_length) >>

\* WriteResizeWindowCmd in Write mode: one write of the whole command.
WriteResizeWindowCmd_Writes(surface_id, width, height, tid) ==
    << HeaderWrite("MetaDataBlock", "ResizeWindowCommand",
                   Sizeof_meta_data_type + Sizeof_thread_id + Sizeof_surface_id
                       + Sizeof_width + Sizeof_height,
                   tid, << surface_id, width, height >>,
                   Sizeof_ResizeWindowCommand) >>

\* WriteFillMemoryCmd in Write mode.  write_size is size, or the compressed
\* size when the compressor's output is used; memory_size stays size.
WriteFillMemoryCmd_Writes(installed, memory_id, offset, size, compressed_size, tid) ==
    LET compressed == UseCompressed(installed, compressed_size, size)
        write_size == IF compressed THEN compressed_size ELSE size
    IN  << HeaderWrite(IF compressed THEN "CompressedMetaDataBlock"
                                     ELSE "MetaDataBlock",
                       "FillMemoryCommand",
                       Sizeof_meta_data_type + Sizeof_thread_id
                           + Sizeof_memory_id + Sizeof_memory_offset
                           + Sizeof_memory_size + write_size,
                       tid, << memory_id, offset, size >>,
                       Sizeof_FillMemoryCommandHeader),
           DataWrite(IF compressed THEN "compressed_buffer" ELSE "memory",
                     write_size) >>

\* ------------------------------------------------------------------------
\* SpecPkt: every writer framed over bounded inputs
\* ------------------------------------------------------------------------

\* Largest payload (parameter buffer, message, memory range) in bytes.
MaxPayload == 3

\* Number of distinct values taken by ids carried in headers.
NumIds == 2

PayloadSizes == 0 .. MaxPayload
\* A compressor may return 0 (failed) or more than it was given.
CompressedSizes == 0 .. (MaxPayload + 1)
Ids == 1 .. NumIds

NotFramed ==
    [ installed |-> FALSE, op |-> "none", usize |-> 0, csize |-> 0,
      out |-> << >> ]

PktInit == framed = NotFramed

Frame_EndApiCallTrace ==
    /\ framed = NotFramed
    /\ \E installed \in BOOLEAN, u \in PayloadSizes, c \in CompressedSizes,
       call_id \in Ids, tid \in Ids :
        framed' = [ op |-> "EndApiCallTrace", installed |-> installed,
                    usize |-> u, csize |-> c,
                    out |-> EndApiCallTrace_Writes(installed, u, c, call_id, tid) ]
    /\ UNCHANGED << tidVars, mainVars, memVars, instVars, tmplVars, infoVars >>

Frame_WriteDisplayMessageCmd ==
    /\ framed = NotFramed
    /\ \E n \in PayloadSizes, tid \in Ids :
        framed' = [ op |-> "WriteDisplayMessageCmd", installed |-> FALSE,
                    usize |-> n, csize |-> 0,
                    out |-> WriteDisplayMessageCmd_Writes(n, tid) ]
    /\ UNCHANGED << tidVars, mainVars, memVars, instVars, tmplVars, infoVars >>

Frame_WriteResizeWindowCmd ==
    /\ framed = NotFramed
    /\ \E surface \in Ids, w \in Ids, h \in Ids, tid \in Ids :
        framed' = [ op |-> "WriteResizeWindowCmd", installed |-> FALSE,
                    usize |-> 0, csize |-> 0,
                    out |-> WriteResizeWindowCmd_Writes(surface, w, h, tid) ]
    /\ UNCHANGED << tidVars, mainVars, memVars, instVars, tmplVars, infoVars >>

Frame_WriteFillMemoryCmd ==
    /\ framed = NotFramed
    /\ \E installed \in BOOLEAN, mem \in Ids, off \in PayloadSizes,
       n \in PayloadSizes, c \in CompressedSizes, tid \in Ids :
        framed' = [ op |-> "WriteFillMemoryCmd", installed |-> installed,
                    usize |-> n, csize |-> c,
                    out |-> WriteFillMemoryCmd_Writes(installed, mem, off, n, c, tid) ]
    /\ UNCHANGED << tidVars, mainVars, memVars, instVars, tmplVars, infoVars >>

\* The writes were handed to the stream; the next block can be framed.
Frame_Done ==
    /\ framed # NotFramed
    /\ framed' = NotFramed
    /\ UNCHANGED << tidVars, mainVars, memVars, instVars, tmplVars, infoVars >>

PktNext ==
    \/ Frame_Done
    \/ Frame_EndApiCallTrace
    \/ Frame_WriteDisplayMessageCmd
    \/ Frame_WriteResizeWindowCmd
    \/ Frame_WriteFillMemoryCmd

\* Bytes a sequence of writes puts on the stream.
RECURSIVE BytesOf(_)
BytesOf(ws) == IF ws = << >> THEN 0 ELSE Head(ws).len + BytesOf(Tail(ws))

\* C4: Write mode on; the emitted block is a CompressedFunctionCallBlock
\* carrying the compressor's output iff a compressor is installed and
\* 0 < C < U; in every other case it is a FunctionCallBlock carrying the
\* original U parameter bytes.
C4_CompressionBenefitRule ==
    framed.op = "EndApiCallTrace" =>
        LET h == framed.out[1]
            d == framed.out[2]
            benefit == framed.installed /\ 0 < framed.csize
                           /\ framed.csize < framed.usize
        IN  /\ Len(framed.out) = 2
            /\ h.type \in {"CompressedFunctionCallBlock", "FunctionCallBlock"}
            /\ (h.type = "CompressedFunctionCallBlock") <=> benefit
            /\ benefit =>
                   /\ d.src = "compressed_buffer"
                   /\ d.len = framed.csize
                   /\ h.f[2] = framed.usize
            /\ ~benefit =>
                   /\ d.src = "parameter_buffer"
                   /\ d.len = framed.usize

\* A compressor that returned exactly U bytes: the uncompressed form is used.
C4_Witness ==
    /\ framed.op = "EndApiCallTrace"
    /\ framed.installed
    /\ framed.csize = framed.usize
    /\ framed.usize > 0
    /\ framed.out[1].type = "FunctionCallBlock"

\* C5: for every emitted block of every kind, block_header.size equals the
\* number of bytes written to the stream for that block after the block
\* header.
C5_PacketSizeField ==
    framed.op # "none" =>
        framed.out[1].size = BytesOf(framed.out) - Sizeof_block_header

\* A compressed fill-memory block was framed.
C5_Witness ==
    /\ framed.op = "WriteFillMemoryCmd"
    /\ framed.out[1].type = "CompressedMetaDataBlock"
    /\ framed.out[2].len < framed.usize

\* ------------------------------------------------------------------------
\* Spec: Initialize, hooks on concurrent threads, EndFrame and trimming
\* ------------------------------------------------------------------------

\* Threads that call hooks.  Every worker has made its first access, in
\* order, so worker w holds logical thread id w.
NumWorkers == 2

\* Hook operations one worker begins.
MaxOps == 2

\* Last frame a configured trim range may cover (SpecFrames).
MaxFrame == 3

\* Last frame a configured trim range may cover when hooks run concurrently
\* with EndFrame (Spec).
MaxHookFrame == 2

\* Packets VulkanStateTracker::WriteState puts into a trim file.
StatePackets == 1

Workers == 1 .. NumWorkers

\* const uint32_t kFirstFrame = 1;
kFirstFrame == 1

\* CaptureMode bit masks.
kModeDisabled      == {}
kModeWrite         == {"Write"}
kModeTrack         == {"Track"}
kModeWriteAndTrack == {"Write", "Track"}

\* format::ApiCallId::ApiCall_Unknown
ApiCall_Unknown == 0

\* (capture_mode_ & kModeWrite) == kModeWrite
WriteOn == kModeWrite \subseteq capture_mode_

\* (capture_mode_ & kModeTrack) == kModeTrack
TrackOn == kModeTrack \subseteq capture_mode_

\* Legal settings: count > 0, ranges increasing and non-overlapping.
TrimRanges ==
    { r \in [first : 1 .. MaxFrame, total : 1 .. MaxFrame] :
          r.first + r.total - 1 <= MaxFrame }

TrimConfigs ==
    {<< >>}
        \cup { << r >> : r \in TrimRanges }
        \cup { c \in { << r1, r2 >> : r1 \in TrimRanges, r2 \in TrimRanges } :
                   c[1].first + c[1].total <= c[2].first }

\* Last frame covered by a configuration (kFirstFrame when there is none).
LastFrame(ranges) ==
    IF ranges = << >> THEN kFirstFrame
    ELSE ranges[Len(ranges)].first + ranges[Len(ranges)].total - 1

HookTrimConfigs == { c \in TrimConfigs : LastFrame(c) <= MaxHookFrame }

CompressionTypes == {"kNone", "kLz4", "unknown"}

\* One entry of a capture file: the write, and who issued it (w) as the q-th
\* operation of that thread (history tags, not bytes of the file).
Tagged(e, w, q) == [ e |-> e, w |-> w, q |-> q ]

\* WriteFileHeader: the FileHeader, then the option list built by
\* BuildOptionList (one pair: the compression type).
WriteFileHeader_Writes ==
    << [ type |-> "", meta |-> "", size |-> 0, tid |-> 0,
         f |-> << 0, 0, 1 >>, len |-> 12, k |-> "file_header", src |-> "" ],
       [ type |-> "", meta |-> "", size |-> 0, tid |-> 0, f |-> << >>,
         len |-> 8, k |-> "options", src |-> "kCompressionType" ] >>

\* One packet written by VulkanStateWriter on behalf of thread tid.
StateWrite(tid) ==
    [ type |-> "", meta |-> "", size |-> 0, tid |-> tid, f |-> << >>,
      len |-> 0, k |-> "state", src |-> "state_tracker" ]

RECURSIVE TagAll(_, _, _)
TagAll(ws, w, q) ==
    IF ws = << >> THEN << >>
    ELSE << Tagged(Head(ws), w, q) >> \o TagAll(Tail(ws), w, q)

\* A capture file as CreateCaptureFile leaves it on success.  range is the
\* first frame of the trim range it was named after (0: not a trim file);
\* by names the caller.
NewFile(range, by, w) ==
    [ range |-> range, by |-> by, data |-> TagAll(WriteFileHeader_Writes, w, 0) ]

\* TraceManager::TraceManager()
MainInit ==
    /\ status = "constructed"
    /\ capture_mode_ = kModeWrite
    /\ trim_enabled_ = FALSE
    /\ trim_ranges_ = << >>
    /\ trim_current_range_ = 0
    /\ current_frame_ = kFirstFrame
    /\ compressor_ = FALSE
    /\ state_tracker_ = FALSE
    /\ file_stream_ = 0
    /\ file_lock_ = NoThread
    /\ files = << >>
    /\ call_id_ = [w \in Workers |-> ApiCall_Unknown]
    /\ param_len = [w \in Workers |-> 0]
    /\ pc = [w \in Workers |-> "idle"]
    /\ pending = [w \in Workers |-> << >>]
    /\ fault = FALSE
    /\ cfg_ranges = << >>
    /\ frame_no = kFirstFrame
    /\ open_failed = FALSE
    /\ activations = << >>
    /\ ops = [w \in Workers |-> << >>]

\* State tracking is never switched on when capture starts at the first frame.
InitialMode_NoTrack(ranges) ==
    IF ranges = << >> THEN kModeWrite
    ELSE IF ranges[1].first = kFirstFrame THEN kModeWrite ELSE kModeTrack

\* capture_mode_ chosen by Initialize before any file is opened.
InitialMode(ranges) ==
    IF ranges = << >> THEN kModeWrite
    ELSE IF ranges[1].first = kFirstFrame
         THEN (IF Len(ranges) > 1 THEN kModeWriteAndTrack ELSE kModeWrite)
         ELSE kModeTrack

\* TraceManager::Initialize, called by CreateInstance under instance_lock_
\* before any hook can reach the instance.  opened is the outcome of
\* FileOutputStream::IsValid in CreateCaptureFile.
Initialize(ranges, compression_type, opened, tracking_mode) ==
    /\ status = "constructed"
    /\ memory_tracking_mode_' = tracking_mode
    /\ LET mode0    == InitialMode(ranges)
           creates  == ranges = << >> \/ ranges[1].first = current_frame_
           success1 == ~creates \/ opened
           \* format::CreateCompressor: nullptr for kNone and for an unknown type
           comp     == success1 /\ compression_type = "kLz4"
           success  == success1 /\ (comp \/ compression_type = "kNone")
       IN  /\ trim_enabled_' = (ranges # << >>)
           /\ trim_ranges_' = ranges
           /\ cfg_ranges' = ranges
           /\ IF creates /\ opened
              THEN /\ files' = Append(files,
                                      NewFile(IF ranges = << >> THEN 0
                                              ELSE ranges[1].first,
                                              "Initialize", 0))
                   /\ file_stream_' = Len(files) + 1
              ELSE UNCHANGED << files, file_stream_ >>
           /\ open_failed' = (creates /\ ~opened)
           /\ compressor_' = comp
           /\ state_tracker_' = (success /\ "Track" \in mode0)
           /\ capture_mode_' = IF success THEN mode0 ELSE kModeDisabled
           \* util::PageGuardManager::Create(...)
           /\ page_guard_' = (success /\ tracking_mode = "kPageGuard")
           /\ status' = IF success THEN "ready" ELSE "failed"
    /\ UNCHANGED << trim_current_range_, current_frame_, file_lock_,
                    threadVars, pc, pending, fault, frame_no, activations,
                    ops >>
    /\ UNCHANGED << tidVars, pktVars, memState, tmplVars, infoVars >>

\* The process runs (a hook can start) once CreateInstance has returned.
Running == status # "constructed" /\ ~fault

\* A mutex that excludes nobody.
FileLockFree_Broken == TRUE

\* std::lock_guard<std::mutex> lock(file_lock_) can be entered.
FileLockFree == file_lock_ = NoThread

\* The pending call id keeps its old value.
SetCallId_Stale(w, call_id) == call_id_

\* thread_data->call_id_ = call_id;
SetCallId(w, call_id) == [call_id_ EXCEPT ![w] = call_id]

\* TraceManager::InitApiCallTrace; the shim then encodes n bytes of parameters
\* through the returned encoder (a step no other thread can observe).
InitApiCallTrace(w, call_id, n) ==
    /\ Running
    /\ pc[w] \in {"idle", "pre"}
    /\ Len(ops[w]) < MaxOps
    /\ call_id_' = SetCallId(w, call_id)
    /\ ops' = [ops EXCEPT ![w] = Append(@, [kind |-> "FunctionCall", call |-> call_id])]
    /\ param_len' = [param_len EXCEPT ![w] = @ + n]
    /\ pc' = [pc EXCEPT ![w] = "end"]
    /\ UNCHANGED << status, modeVars, streamVars, file_lock_, pending, fault,
                    histVars >>
    /\ UNCHANGED << tidVars, pktVars, memVars, instVars, tmplVars, infoVars >>

\* The parameter buffer keeps its content.
EncoderReset_Skipped(w) == param_len

\* encoder->Reset(): the thread's parameter buffer is emptied.
EncoderReset(w) == [param_len EXCEPT ![w] = 0]

\* TraceManager::EndApiCallTrace up to the critical section: the mode test,
\* the compression attempt and the header.  compressed_size is what
\* compressor_->Compress returns.
EndApiCallTrace_Begin(w, compressed_size) ==
    /\ ~fault
    /\ pc[w] = "end"
    /\ IF WriteOn
       THEN /\ pending' = [pending EXCEPT ![w] =
                   EndApiCallTrace_Writes(compressor_, param_len[w],
                                          compressed_size, call_id_[w], w)]
            /\ pc' = [pc EXCEPT ![w] = "call_lock"]
            /\ UNCHANGED param_len
       ELSE \* else if (encoder != nullptr) encoder->Reset();
            /\ param_len' = EncoderReset(w)
            /\ pc' = [pc EXCEPT ![w] = "idle"]
            /\ UNCHANGED pending
    /\ UNCHANGED << status, modeVars, streamVars, file_lock_, call_id_,
                    fault, histVars, ops >>
    /\ UNCHANGED << tidVars, pktVars, memVars, instVars, tmplVars, infoVars >>

\* A metadata writer (WriteDisplayMessageCmd, WriteResizeWindowCmd) up to
\* the critical section: nothing happens unless Write is set.
MetaCmd_Begin(w, kind, writes) ==
    /\ Running
    /\ pc[w] = "idle"
    /\ Len(ops[w]) < MaxOps
    /\ ops' = [ops EXCEPT ![w] = Append(@, [kind |-> kind, call |-> 0])]
    /\ IF WriteOn
       THEN /\ pending' = [pending EXCEPT ![w] = writes]
            /\ pc' = [pc EXCEPT ![w] = "meta_lock"]
       ELSE UNCHANGED << pending, pc >>
    /\ UNCHANGED << status, modeVars, streamVars, file_lock_, threadVars,
                    fault, histVars >>
    /\ UNCHANGED << tidVars, pktVars, memVars, instVars, tmplVars, infoVars >>

WriteDisplayMessageCmd(w, message_length) ==
    MetaCmd_Begin(w, "DisplayMessageCommand",
                  WriteDisplayMessageCmd_Writes(message_length, w))

WriteResizeWindowCmd(w, surface_id, width, height) ==
    MetaCmd_Begin(w, "ResizeWindowCommand",
                  WriteResizeWindowCmd_Writes(surface_id, width, height, w))

\* Appends the next pending write of thread w to the file behind
\* file_stream_, as file_stream_ is at this moment; a null file_stream_ is
\* dereferenced (fault).
StreamWrite(w, tag) ==
    IF file_stream_ = 0
    THEN /\ fault' = TRUE
         /\ UNCHANGED << files, pending >>
    ELSE /\ files' = [files EXCEPT ![file_stream_].data =
                          Append(@, Tagged(Head(pending[w]), w, tag))]
         /\ pending' = [pending EXCEPT ![w] = Tail(@)]
         /\ UNCHANGED fault

\* The critical section of EndApiCallTrace and of the metadata writers:
\*   std::lock_guard<std::mutex> lock(file_lock_);
\*   bytes_written_ += file_stream_->Write(...);      (the first write)
\* Taking the mutex and the first write are one step: the thread reads no
\* shared state in between.
FileLock_AcquireAndWrite(w) ==
    /\ ~fault
    /\ pc[w] \in {"call_lock", "meta_lock"}
    /\ FileLockFree
    /\ file_lock_' = w
    /\ StreamWrite(w, Len(ops[w]))
    /\ pc' = [pc EXCEPT ![w] = IF pc[w] = "call_lock" THEN "call_write"
                                                       ELSE "meta_write"]
    /\ UNCHANGED << status, modeVars, file_stream_, threadVars, histVars, ops >>
    /\ UNCHANGED << tidVars, pktVars, memVars, instVars, tmplVars, infoVars >>

\*   bytes_written_ += file_stream_->Write(...);      (a later write)
FileStream_Write(w) ==
    /\ ~fault
    /\ pc[w] \in {"call_write", "meta_write"}
    /\ pending[w] # << >>
    /\ StreamWrite(w, Len(ops[w]))
    /\ UNCHANGED << status, modeVars, file_stream_, file_lock_, threadVars, pc,
                    histVars, ops >>
    /\ UNCHANGED << tidVars, pktVars, memVars, instVars, tmplVars, infoVars >>

\* End of the critical section; EndApiCallTrace then resets the encoder.
FileLock_Release(w) ==
    /\ ~fault
    /\ pc[w] \in {"call_write", "meta_write"}
    /\ pending[w] = << >>
    /\ file_lock_' = IF file_lock_ = w THEN NoThread ELSE file_lock_
    /\ param_len' = IF pc[w] = "call_write" THEN EncoderReset(w) ELSE param_len
    /\ pc' = [pc EXCEPT ![w] = "idle"]
    /\ UNCHANGED << status, modeVars, streamVars, call_id_, pending, fault,
                    histVars, ops >>
    /\ UNCHANGED << tidVars, pktVars, memVars, instVars, tmplVars, infoVars >>

\* No thread is inside EndFrame: frames are ended by one present at a time.
InEndFrame(w) ==
    pc[w] \in {"ef_close", "ef_advance", "act_open", "act_header", "act_state"}

\* trim_ranges_[trim_current_range_]
CurrentRange == trim_ranges_[trim_current_range_ + 1]

\* The range is taken to end one frame early.
RangeFinished_Early(total) == total <= 1

\* The range is taken to end one frame late.
RangeFinished_Late(total) == total < 0

\* EndFrame: trim_ranges_[trim_current_range_].total == 0, after --total
RangeFinished(total) == total = 0

\* TraceManager::EndFrame, from its entry to its first store another thread
\* can observe: ++current_frame_, --total, and clearing the Write bit at the
\* end of a range, or the test for the start of a range while only tracking.
EndFrame_Begin(w) ==
    /\ Running
    /\ pc[w] = "idle"
    /\ \A u \in Workers : ~InEndFrame(u)
    /\ frame_no <= LastFrame(cfg_ranges)
    /\ IF ~trim_enabled_
       THEN /\ frame_no' = frame_no + 1
            /\ UNCHANGED << modeVars, pc >>
       ELSE /\ current_frame_' = current_frame_ + 1
            /\ IF WriteOn
               THEN /\ trim_ranges_' =
                        [trim_ranges_ EXCEPT ![trim_current_range_ + 1].total = @ - 1]
                    /\ IF RangeFinished(CurrentRange.total - 1)
                       THEN /\ capture_mode_' = capture_mode_ \ kModeWrite
                            /\ pc' = [pc EXCEPT ![w] = "ef_close"]
                            /\ UNCHANGED frame_no
                       ELSE /\ frame_no' = frame_no + 1
                            /\ UNCHANGED << capture_mode_, pc >>
               ELSE /\ UNCHANGED << trim_ranges_, capture_mode_ >>
                    /\ IF TrackOn /\ CurrentRange.first = current_frame_ + 1
                       THEN /\ pc' = [pc EXCEPT ![w] = "act_open"]
                            /\ UNCHANGED frame_no
                       ELSE /\ frame_no' = frame_no + 1
                            /\ UNCHANGED pc
            /\ UNCHANGED << trim_enabled_, trim_current_range_, compressor_,
                            state_tracker_ >>
    /\ UNCHANGED << status, streamVars, file_lock_, threadVars, pending, fault,
                    cfg_ranges, open_failed, activations, ops >>
    /\ UNCHANGED << tidVars, pktVars, memVars, instVars, tmplVars, infoVars >>

\* EndFrame: file_stream_ = nullptr;  (file_lock_ is not taken)
EndFrame_CloseStream(w) ==
    /\ ~fault
    /\ pc[w] = "ef_close"
    /\ file_stream_' = 0
    /\ pc' = [pc EXCEPT ![w] = "ef_advance"]
    /\ UNCHANGED << status, modeVars, files, file_lock_, threadVars, pending,
                    fault, histVars, ops >>
    /\ UNCHANGED << tidVars, pktVars, memVars, instVars, tmplVars, infoVars >>

\* EndFrame: ++trim_current_range_, then either the end of capture or the
\* test for a range that starts at the frame that has just begun.
EndFrame_Advance(w) ==
    /\ ~fault
    /\ pc[w] = "ef_advance"
    /\ trim_current_range_' = trim_current_range_ + 1
    /\ IF trim_current_range_ + 1 >= Len(trim_ranges_)
       THEN /\ trim_enabled_' = FALSE
            /\ capture_mode_' = kModeDisabled
            /\ state_tracker_' = FALSE
            /\ compressor_' = FALSE
            /\ pc' = [pc EXCEPT ![w] = "idle"]
            /\ frame_no' = frame_no + 1
       ELSE /\ UNCHANGED << trim_enabled_, capture_mode_, state_tracker_,
                            compressor_ >>
            /\ IF trim_ranges_[trim_current_range_ + 2].first = current_frame_
               THEN /\ pc' = [pc EXCEPT ![w] = "act_open"]
                    /\ UNCHANGED frame_no
               ELSE /\ pc' = [pc EXCEPT ![w] = "idle"]
                    /\ frame_no' = frame_no + 1
    /\ UNCHANGED << status, trim_ranges_, current_frame_, streamVars,
                    file_lock_, threadVars, pending, fault, cfg_ranges,
                    open_failed, activations, ops >>
    /\ UNCHANGED << tidVars, pktVars, memVars, instVars, tmplVars, infoVars >>

\* The Track bit survives a failed activation.
FailedActivationMode_KeepTrack(mode) == mode \ kModeWrite

\* ActivateTrimming, open failed: capture_mode_ = kModeDisabled;
FailedActivationMode(mode) == kModeDisabled

\* ActivateTrimming: CreateCaptureFile(CreateTrimFilename(...)) up to the
\* IsValid test.  On failure trimming and capture are disabled.
ActivateTrimming_Open(w, opened) ==
    /\ ~fault
    /\ pc[w] = "act_open"
    /\ activations' = Append(activations,
                             [ range |-> trim_current_range_ + 1,
                               frame |-> current_frame_,
                               opened |-> opened ])
    /\ IF opened
       THEN /\ files' = Append(files, [ range |-> CurrentRange.first,
                                        by |-> "ActivateTrimming",
                                        data |-> << >> ])
            /\ file_stream_' = Len(files) + 1
            /\ pending' = [pending EXCEPT ![w] = WriteFileHeader_Writes]
            /\ pc' = [pc EXCEPT ![w] = "act_header"]
            /\ UNCHANGED << trim_enabled_, capture_mode_, frame_no, open_failed >>
       ELSE /\ file_stream_' = 0
            /\ trim_enabled_' = FALSE
            /\ capture_mode_' = FailedActivationMode(capture_mode_)
            /\ open_failed' = TRUE
            /\ pc' = [pc EXCEPT ![w] = "idle"]
            /\ frame_no' = frame_no + 1
            /\ UNCHANGED << files, pending >>
    /\ UNCHANGED << status, trim_ranges_, trim_current_range_, current_frame_,
                    compressor_, state_tracker_, file_lock_, threadVars, fault,
                    cfg_ranges, ops >>
    /\ UNCHANGED << tidVars, pktVars, memVars, instVars, tmplVars, infoVars >>

\* A write to the new file by the thread in ActivateTrimming: WriteFileHeader
\* and VulkanStateWriter write to file_stream_ without taking file_lock_.
ActivateTrimming_Write(w) ==
    /\ ~fault
    /\ pc[w] \in {"act_header", "act_state"}
    /\ pending[w] # << >>
    /\ files' = [files EXCEPT ![file_stream_].data =
                     Append(@, Tagged(Head(pending[w]), w, 0))]
    /\ pending' = [pending EXCEPT ![w] = Tail(@)]
    /\ UNCHANGED << status, modeVars, file_stream_, file_lock_, threadVars, pc,
                    fault, histVars, ops >>
    /\ UNCHANGED << tidVars, pktVars, memVars, instVars, tmplVars, infoVars >>

\* ActivateTrimming: the file header is written;
\*   capture_mode_ |= kModeWrite;
\* and the stream is handed to state_tracker_->WriteState.
ActivateTrimming_SetWrite(w) ==
    /\ ~fault
    /\ pc[w] = "act_header"
    /\ pending[w] = << >>
    /\ capture_mode_' = capture_mode_ \cup kModeWrite
    /\ pending' = [pending EXCEPT ![w] = [i \in 1 .. StatePackets |-> StateWrite(w)]]
    /\ pc' = [pc EXCEPT ![w] = "act_state"]
    /\ UNCHANGED << status, trim_enabled_, trim_ranges_, trim_current_range_,
                    current_frame_, compressor_, state_tracker_, streamVars,
                    file_lock_, threadVars, fault, histVars, ops >>
    /\ UNCHANGED << tidVars, pktVars, memVars, instVars, tmplVars, infoVars >>

\* WriteState has returned; ActivateTrimming and EndFrame return.
EndFrame_Return(w) ==
    /\ ~fault
    /\ pc[w] = "act_state"
    /\ pending[w] = << >>
    /\ pc' = [pc EXCEPT ![w] = "idle"]
    /\ frame_no' = frame_no + 1
    /\ UNCHANGED << status, modeVars, streamVars, file_lock_, threadVars,
                    pending, fault, cfg_ranges, open_failed, activations,
                    ops >>
    /\ UNCHANGED << tidVars, pktVars, memVars, instVars, tmplVars, infoVars >>

\* Inputs of the hooks.  The n-th call of a thread has call id 1 or 2 in turn.
HookCallId(n) == 1 + (n % 2)
HookParamSizes      == {2}
HookCompressedSizes == {1}

\* ------------------------------------------------------------------------
\* Instance lifecycle: CreateInstance, CheckCreateInstanceStatus,
\* DestroyInstance (SpecInst)
\* ------------------------------------------------------------------------

\* CreateInstance and DestroyInstance calls one thread makes (SpecInst).
MaxInstCalls == 2

\* Largest and smallest value of the 32-bit two's complement reading.
Int32Max == 2147483647
Int32Min == (-Int32Max) - 1

\* ++instance_count_ on a uint32_t
Inc32(c) == IF c = Int32Max THEN Int32Min ELSE c + 1

\* --instance_count_ on a uint32_t: 0 becomes 0xFFFFFFFF, read here as -1
Dec32(c) == IF c = Int32Min THEN Int32Max ELSE c - 1

\* The results the downstream vkCreateInstance hands to
\* CheckCreateInstanceStatus.
VkResults == {"VK_SUCCESS", "VK_ERROR_INITIALIZATION_FAILED"}

\* TraceManager* instance_ = nullptr; uint32_t instance_count_ = 0;
InstInit ==
    /\ instance_ = FALSE
    /\ instance_count_ = 0
    /\ instance_lock_ = NoThread
    /\ inst_pc = [w \in Workers |-> "idle"]
    /\ assert_failed = FALSE
    /\ create_ret = [w \in Workers |-> TRUE]
    /\ inst_before = [w \in Workers |-> << 0, FALSE >>]
    /\ inst_after = [w \in Workers |-> << 0, FALSE >>]
    /\ inst_calls = [w \in Workers |-> 0]
    /\ check_result = [w \in Workers |-> "VK_SUCCESS"]

\* A thread can enter CreateInstance or DestroyInstance: it is in no instance
\* call, the mutex is free and the process has not aborted.
CanEnterInstanceCall(w) ==
    /\ ~assert_failed
    /\ inst_pc[w] = "idle"
    /\ instance_lock_ = NoThread
    /\ inst_calls[w] < MaxInstCalls

\* CreateInstance with instance_count_ == 0: instance_ = new TraceManager(),
\* reached with instance_lock_ taken.  The members get the constructor's
\* values; the files on disk and the thread-local data are not the object's.
CreateInstance_Construct(w) ==
    /\ CanEnterInstanceCall(w)
    /\ instance_count_ = 0
    /\ instance_lock_' = w
    /\ instance_' = TRUE
    /\ inst_pc' = [inst_pc EXCEPT ![w] = "initialize"]
    /\ inst_before' = [inst_before EXCEPT ![w] = << instance_count_, instance_ >>]
    /\ inst_calls' = [inst_calls EXCEPT ![w] = @ + 1]
    /\ status' = "constructed"
    /\ capture_mode_' = kModeWrite
    /\ trim_enabled_' = FALSE
    /\ trim_ranges_' = << >>
    /\ trim_current_range_' = 0
    /\ current_frame_' = kFirstFrame
    /\ compressor_' = FALSE
    /\ state_tracker_' = FALSE
    /\ file_stream_' = 0
    /\ file_lock_' = NoThread
    /\ memory_tracking_mode_' = "kPageGuard"
    /\ cfg_ranges' = << >>
    /\ frame_no' = kFirstFrame
    /\ open_failed' = FALSE
    /\ activations' = << >>
    /\ UNCHANGED << files, threadVars, pc, pending, fault, ops >>
    /\ UNCHANGED << page_guard_, memState >>
    /\ UNCHANGED << instance_count_, assert_failed, create_ret, inst_after,
                    check_result >>
    /\ UNCHANGED << tidVars, pktVars, tmplVars, infoVars >>

\* CreateInstance, first call: assert(instance_ == nullptr) holds.
CreateInstance_New(w) ==
    /\ ~instance_
    /\ CreateInstance_Construct(w)

\* CreateInstance with instance_count_ == 0 while instance_ still points to
\* an object, in a build without asserts: the pointer is overwritten.
CreateInstance_NewOverLeaked(w) ==
    /\ instance_
    /\ CreateInstance_Construct(w)

\* CreateInstance with instance_count_ == 0 while instance_ still points to
\* an object, in a build with asserts: assert(instance_ == nullptr) aborts.
CreateInstance_AssertFails(w) ==
    /\ CanEnterInstanceCall(w)
    /\ instance_count_ = 0
    /\ instance_
    /\ assert_failed' = TRUE
    /\ UNCHANGED << instance_, instance_count_, instance_lock_, inst_pc,
                    create_ret, inst_before, inst_after, inst_calls,
                    check_result >>
    /\ UNCHANGED << tidVars, pktVars, mainVars, memVars, tmplVars, infoVars >>

\* CreateInstance, first call, from instance_->Initialize(...) to the return:
\* instance_count_ = 1 on success, nothing on failure.
CreateInstance_Initialize(w, ranges, compression_type, opened, tracking_mode) ==
    /\ inst_pc[w] = "initialize"
    /\ instance_lock_ = w
    /\ Initialize(ranges, compression_type, opened, tracking_mode)
    /\ instance_count_' = IF status' = "ready" THEN 1 ELSE instance_count_
    /\ create_ret' = [create_ret EXCEPT ![w] = (status' = "ready")]
    /\ inst_after' = [inst_after EXCEPT ![w] = << instance_count_', instance_ >>]
    /\ instance_lock_' = NoThread
    /\ inst_pc' = [inst_pc EXCEPT ![w] = "check"]
    /\ UNCHANGED << instance_, assert_failed, inst_before, inst_calls,
                    check_result >>

\* CreateInstance with instance_count_ != 0: assert(instance_ != nullptr);
\* ++instance_count_; the whole call under instance_lock_.
CreateInstance_Increment(w) ==
    /\ CanEnterInstanceCall(w)
    /\ instance_count_ # 0
    /\ assert_failed' \in {FALSE, ~instance_}
    /\ instance_count_' = Inc32(instance_count_)
    /\ create_ret' = [create_ret EXCEPT ![w] = TRUE]
    /\ inst_before' = [inst_before EXCEPT ![w] = << instance_count_, instance_ >>]
    /\ inst_after' = [inst_after EXCEPT ![w] = << instance_count_', instance_ >>]
    /\ inst_calls' = [inst_calls EXCEPT ![w] = @ + 1]
    /\ inst_pc' = [inst_pc EXCEPT ![w] = "check"]
    /\ UNCHANGED << instance_, instance_lock_, check_result >>
    /\ UNCHANGED << tidVars, pktVars, mainVars, memVars, tmplVars, infoVars >>

\* The body of DestroyInstance under instance_lock_: if (instance_ != nullptr)
\* { --instance_count_; if (instance_count_ == 0) { delete instance_;
\* instance_ = nullptr; } }.  ~TraceManager destroys the PageGuardManager in
\* page-guard mode and the owned stream, compressor and state tracker go with
\* the object.
DestroyInstance_Locked ==
    IF instance_
    THEN /\ instance_count_' = Dec32(instance_count_)
         /\ IF instance_count_' = 0
            THEN /\ instance_' = FALSE
                 /\ status' = "deleted"
                 /\ file_stream_' = 0
                 /\ compressor_' = FALSE
                 /\ state_tracker_' = FALSE
                 /\ page_guard_' = IF memory_tracking_mode_ = "kPageGuard"
                                   THEN FALSE ELSE page_guard_
            ELSE UNCHANGED << instance_, status, file_stream_, compressor_,
                              state_tracker_, page_guard_ >>
    ELSE UNCHANGED << instance_, instance_count_, status, file_stream_,
                      compressor_, state_tracker_, page_guard_ >>

\* What the instance calls never touch outside the object.
DestroyInstance_Frame ==
    /\ UNCHANGED << capture_mode_, trim_enabled_, trim_ranges_,
                    trim_current_range_, current_frame_, files, file_lock_,
                    threadVars, pc, pending, fault, histVars, ops >>
    /\ UNCHANGED << memory_tracking_mode_, memState >>
    /\ UNCHANGED << instance_lock_, assert_failed, create_ret, inst_before,
                    inst_after >>
    /\ UNCHANGED << tidVars, pktVars, tmplVars, infoVars >>

\* TraceManager::DestroyInstance
DestroyInstance(w) ==
    /\ CanEnterInstanceCall(w)
    /\ DestroyInstance_Locked
    /\ inst_calls' = [inst_calls EXCEPT ![w] = @ + 1]
    /\ UNCHANGED << inst_pc, check_result >>
    /\ DestroyInstance_Frame

\* DestroyInstance, entered directly or from CheckCreateInstanceStatus, with
\* instance_ != nullptr and instance_count_ == 0 in a build with asserts:
\* assert(instance_count_ > 0) aborts.
DestroyInstance_AssertFails(w) ==
    /\ ~assert_failed
    /\ inst_pc[w] \in {"idle", "check"}
    /\ instance_lock_ = NoThread
    /\ instance_
    /\ instance_count_ = 0
    /\ assert_failed' = TRUE
    /\ UNCHANGED << instance_, instance_count_, instance_lock_, inst_pc,
                    create_ret, inst_before, inst_after, inst_calls,
                    check_result >>
    /\ UNCHANGED << tidVars, pktVars, mainVars, memVars, tmplVars, infoVars >>

\* TraceManager::CheckCreateInstanceStatus, called by the shim after its
\* CreateInstance call with the result of the downstream vkCreateInstance.
CheckCreateInstanceStatus(w, result) ==
    /\ ~assert_failed
    /\ inst_pc[w] = "check"
    /\ IF result # "VK_SUCCESS"
       THEN /\ instance_lock_ = NoThread
            /\ DestroyInstance_Locked
       ELSE UNCHANGED << instance_, instance_count_, status, file_stream_,
                         compressor_, state_tracker_, page_guard_ >>
    /\ inst_pc' = [inst_pc EXCEPT ![w] = "idle"]
    /\ check_result' = [check_result EXCEPT ![w] = result]
    /\ UNCHANGED inst_calls
    /\ DestroyInstance_Frame

\* The Initialize inputs of SpecInst.
InstTrimConfigs == { << >> }

InstNext ==
    \E w \in Workers :
        \/ CreateInstance_New(w)
        \/ CreateInstance_NewOverLeaked(w)
        \/ CreateInstance_AssertFails(w)
        \/ \E ranges \in InstTrimConfigs, ct \in CompressionTypes,
              opened \in BOOLEAN :
               CreateInstance_Initialize(w, ranges, ct, opened, "kPageGuard")
        \/ CreateInstance_Increment(w)
        \/ \E result \in VkResults : CheckCreateInstanceStatus(w, result)
        \/ DestroyInstance(w)
        \/ DestroyInstance_AssertFails(w)

\* The thread that loads the layer makes the first CreateInstance call.
Loader == {1}

\* ------------------------------------------------------------------------
\* SpecMem: the memory hooks
\* ------------------------------------------------------------------------

\* VkDeviceMemory objects the application allocates.
NumMems == 2

\* Largest allocationSize.
MaxAlloc == 2

\* Largest memoryRangeCount passed to vkFlushMappedMemoryRanges.
MaxRanges == 2

Mems == 1 .. NumMems

\* VK_NULL_HANDLE
NullMemory == 0

\* (~0ULL): larger than every allocation size.
VK_WHOLE_SIZE == 99

\* CaptureSettings::MemoryTrackingMode
TrackingModes == {"kPageGuard", "kAssisted", "kUnassisted"}

\* format::ApiCallId values of the calls whose PreProcess hook harvests memory.
ApiCall_vkQueueSubmit              == 3
ApiCall_vkUnmapMemory              == 4
ApiCall_vkFlushMappedMemoryRanges  == 5

\* A DeviceMemoryWrapper before vkAllocateMemory has returned it.  freed is
\* set when vkFreeMemory has been called for the handle: the layer destroys
\* the wrapper when the call returns.
NewWrapper ==
    [ allocation_size |-> 0, mapped_data |-> FALSE, mapped_offset |-> 0,
      mapped_size |-> 0, freed |-> FALSE ]

\* A handle the application may pass to a call: allocated and not freed.
Live(m) == wrappers[m].allocation_size > 0 /\ ~wrappers[m].freed

\* No pointer has been handed out.
NoPointer == [mem |-> NullMemory, at |-> 0, via |-> "none"]

\* *ppData as the driver's vkMapMemory returned it: the address of byte
\* offset of the memory object.
MappedPointer(m, offset) == [mem |-> m, at |-> offset, via |-> "driver"]

\* PageGuardManager::AddMemory: the effective pointer for the mapping, the
\* tracker's own for the address it was given.
AddMemory(memory_id, mapped_memory, size, use_shadow_memory) ==
    [mapped_memory EXCEPT !.via = "tracker"]

\* TraceManager::TraceManager(): memory_tracking_mode_(kPageGuard); no
\* PageGuardManager, no wrappers.
MemInit ==
    /\ memory_tracking_mode_ = "kPageGuard"
    /\ page_guard_ = FALSE
    /\ wrappers = [m \in Mems |-> NewWrapper]
    /\ mapped_memory_ = {}
    /\ pg_tracked = [m \in Mems |-> 0]
    /\ pg_dirty = {}
    /\ fill_log = << >>
    /\ shim_call = [w \in Workers |-> ApiCall_Unknown]
    /\ host_ptr = [m \in Mems |-> NoPointer]

\* PostProcess_vkAllocateMemory for a new handle m.  With Track set the state
\* tracker stores allocation_size instead.
PostProcess_vkAllocateMemory(w, success, m, allocation_size) ==
    /\ Running
    /\ pc[w] = "idle"
    /\ wrappers[m].allocation_size = 0
    /\ IF success
       THEN wrappers' = [wrappers EXCEPT ![m].allocation_size = allocation_size]
       ELSE UNCHANGED wrappers
    /\ UNCHANGED << memCfg, mapped_memory_, pg_tracked, pg_dirty, fill_log,
                    shim_call, host_ptr >>
    /\ UNCHANGED << tidVars, pktVars, mainVars, instVars, tmplVars, infoVars >>

\* Offset and size the application may pass to vkMapMemory for m: offset
\* inside the allocation, size VK_WHOLE_SIZE or a positive number of bytes
\* that end inside the allocation.
ValidMapExtent(m, offset, size) ==
    /\ offset >= 0
    /\ offset < wrappers[m].allocation_size
    /\ \/ size = VK_WHOLE_SIZE
       \/ size > 0 /\ offset + size <= wrappers[m].allocation_size

\* The extents SpecMem and SpecFlush map: the whole allocation, or its last
\* byte.
MapExtents(m) ==
    { << 0, VK_WHOLE_SIZE >>,
      << wrappers[m].allocation_size - 1, 1 >> }

\* A VkMappedMemoryRange the application may pass: inside the mapping when
\* its memory is mapped.
FlushRange ==
    { r \in [memory : Mems \cup {NullMemory}, offset : 0 .. MaxAlloc - 1,
             size : {1, VK_WHOLE_SIZE}] :
          IF r.memory # NullMemory /\ wrappers[r.memory].mapped_data
          THEN /\ r.offset >= wrappers[r.memory].mapped_offset
               /\ r.offset < wrappers[r.memory].allocation_size
               /\ r.size # VK_WHOLE_SIZE =>
                      r.offset + r.size <= wrappers[r.memory].allocation_size
          ELSE r.offset = 0 /\ r.size = 1 }

\* Every VkMappedMemoryRange record of the bounded value space.
RangeValues ==
    [memory : Mems \cup {NullMemory}, offset : 0 .. MaxAlloc - 1,
     size : {1, VK_WHOLE_SIZE}]

\* Lists of 1 .. MaxRanges ranges.
RangeLists == UNION { [1 .. n -> RangeValues] : n \in 1 .. MaxRanges }

\* The test PostProcess_vkMapMemory makes before registering a mapping, and
\* the same test taken as always passing.
FirstMapping_Always(m) == TRUE

FirstMapping(m) == ~wrappers[m].mapped_data

\* PostProcess_vkMapMemory.  The wrapper fields are stored by the hook, or by
\* VulkanStateTracker::TrackMappedMemory when Track is set.  In page-guard
\* mode PageGuardManager::Get() is dereferenced: a fault when Initialize did
\* not create the manager.
PostProcess_vkMapMemory(w, success, m, offset, size) ==
    /\ Running
    /\ pc[w] = "idle"
    /\ Live(m)
    /\ ValidMapExtent(m, offset, size)
    /\ IF success /\ FirstMapping(m)
       THEN /\ wrappers' = [wrappers EXCEPT ![m].mapped_data = TRUE,
                                            ![m].mapped_offset = offset,
                                            ![m].mapped_size = size]
            /\ LET sz == IF size = VK_WHOLE_SIZE
                         THEN wrappers[m].allocation_size ELSE size
               IN  IF memory_tracking_mode_ = "kPageGuard" /\ sz > 0
                   THEN IF page_guard_
                        THEN /\ pg_tracked' = [pg_tracked EXCEPT ![m] = sz]
                             /\ host_ptr' =
                                    [host_ptr EXCEPT ![m] =
                                         AddMemory(m, MappedPointer(m, offset),
                                                   sz, FALSE)]
                             /\ UNCHANGED << mapped_memory_, fault >>
                        ELSE /\ fault' = TRUE
                             /\ UNCHANGED << mapped_memory_, pg_tracked,
                                             host_ptr >>
                   ELSE /\ host_ptr' = [host_ptr EXCEPT
                                            ![m] = MappedPointer(m, offset)]
                        /\ IF memory_tracking_mode_ = "kUnassisted"
                           THEN /\ mapped_memory_' = mapped_memory_ \cup {m}
                                /\ UNCHANGED << pg_tracked, fault >>
                           ELSE UNCHANGED << mapped_memory_, pg_tracked,
                                             fault >>
       ELSE /\ host_ptr' = IF success
                           THEN [host_ptr EXCEPT
                                     ![m] = MappedPointer(m, offset)]
                           ELSE host_ptr
            /\ UNCHANGED << wrappers, mapped_memory_, pg_tracked, fault >>
    /\ UNCHANGED << memCfg, pg_dirty, fill_log, shim_call >>
    /\ UNCHANGED << status, modeVars, streamVars, file_lock_, threadVars, pc,
                    pending, histVars, ops >>
    /\ UNCHANGED << tidVars, pktVars, instVars, tmplVars, infoVars >>

\* The application writes through the pointer it got from vkMapMemory; the
\* page-guard manager marks the memory dirty.
HostWrite(m) ==
    /\ Running
    /\ wrappers[m].mapped_data
    /\ pg_tracked[m] > 0
    /\ m \notin pg_dirty
    /\ pg_dirty' = pg_dirty \cup {m}
    /\ UNCHANGED << memCfg, wrappers, mapped_memory_, pg_tracked, fill_log,
                    shim_call, host_ptr >>
    /\ UNCHANGED << tidVars, pktVars, mainVars, instVars, tmplVars, infoVars >>

\* A region handed to WriteFillMemoryCmd.
Region(memory_id, offset, size) ==
    [ memory_id |-> memory_id, offset |-> offset, size |-> size ]

\* PageGuardManager::ProcessMemoryEntry: the callback runs for the tracked
\* memory when it is in dirty.
ProcessMemoryEntry(m, dirty) ==
    IF pg_tracked[m] > 0 /\ m \in dirty
    THEN << Region(m, 0, pg_tracked[m]) >>
    ELSE << >>

\* The packet is written whatever capture_mode_ is.
WriteFillMemoryCmd_Unguarded(w, memory_id, offset, size, compressed_size) ==
    WriteFillMemoryCmd_Writes(compressor_, memory_id, offset, size,
                              compressed_size, w)

\* Nothing reaches the stream.
WriteFillMemoryCmd_Dropped(w, memory_id, offset, size, compressed_size) == << >>

\* TraceManager::WriteFillMemoryCmd: what one call writes, in one critical
\* section, before it returns.
WriteFillMemoryCmd(w, memory_id, offset, size, compressed_size) ==
    IF WriteOn
    THEN WriteFillMemoryCmd_Writes(compressor_, memory_id, offset, size,
                                   compressed_size, w)
    ELSE << >>

\* The writes of the WriteFillMemoryCmd calls a hook makes, in call order.
RECURSIVE HookWrites(_, _, _)
HookWrites(w, regions, compressed_size) ==
    IF regions = << >> THEN << >>
    ELSE WriteFillMemoryCmd(w, Head(regions).memory_id, Head(regions).offset,
                            Head(regions).size, compressed_size)
             \o HookWrites(w, Tail(regions), compressed_size)

\* A memory hook returns to the shim of the call call_id: every
\* WriteFillMemoryCmd it called has written its packet (each under
\* file_lock_, through file_stream_ as it is), and the shim goes on to
\* InitApiCallTrace.  The packets are tagged with the thread's coming call.
MemoryHook_Return(w, call_id, regions, compressed_size) ==
    LET q      == Len(ops[w]) + 1
        writes == HookWrites(w, regions, compressed_size)
    IN  /\ (writes # << >>) => FileLockFree
        /\ IF writes = << >>
           THEN UNCHANGED << files, fault >>
           ELSE IF file_stream_ = 0
                THEN fault' = TRUE /\ UNCHANGED files
                ELSE /\ files' = [files EXCEPT ![file_stream_].data =
                                      @ \o TagAll(writes, w, q)]
                     /\ UNCHANGED fault
        /\ fill_log' = fill_log \o
               [ i \in 1 .. Len(regions) |->
                     [ w |-> w, q |-> q, region |-> regions[i],
                       write |-> WriteOn ] ]
        /\ pc' = [pc EXCEPT ![w] = "pre"]
        /\ shim_call' = [shim_call EXCEPT ![w] = call_id]
        /\ UNCHANGED host_ptr
        /\ UNCHANGED << status, modeVars, file_stream_, file_lock_,
                        threadVars, pending, histVars, ops >>
        /\ UNCHANGED << tidVars, pktVars, memCfg, instVars, tmplVars, infoVars >>

\* util::PageGuardManager::Get() returned nullptr and is dereferenced.
MemoryHook_Fault(w) ==
    /\ fault' = TRUE
    /\ UNCHANGED << status, modeVars, streamVars, file_lock_, threadVars, pc,
                    pending, histVars, ops >>
    /\ UNCHANGED << fill_log, shim_call, host_ptr >>
    /\ UNCHANGED << tidVars, pktVars, memCfg, instVars, tmplVars, infoVars >>

\* The page-guard branch of PreProcess_vkFlushMappedMemoryRanges: the memory
\* objects passed to ProcessMemoryEntry, in call order.  current is
\* current_memory_wrapper: a range is skipped when its memory is the one of
\* the range before it.
RECURSIVE FlushProcessed(_, _)
FlushProcessed(ranges, current) ==
    IF ranges = << >> THEN << >>
    ELSE LET next == Head(ranges).memory IN
         IF next # current
         THEN IF next # NullMemory /\ wrappers[next].mapped_data
              THEN << next >> \o FlushProcessed(Tail(ranges), next)
              ELSE FlushProcessed(Tail(ranges), next)
         ELSE FlushProcessed(Tail(ranges), current)

\* The regions the callbacks receive when ProcessMemoryEntry is called for
\* each of mems in turn; dirty is what the manager still holds as dirty.
RECURSIVE ProcessEach(_, _)
ProcessEach(mems, dirty) ==
    IF mems = << >> THEN << >>
    ELSE ProcessMemoryEntry(Head(mems), dirty)
             \o ProcessEach(Tail(mems), dirty \ {Head(mems)})

\* The page-guard branch of PreProcess_vkFlushMappedMemoryRanges: the regions
\* the callbacks receive.
FlushPageGuard(ranges, current, dirty) ==
    ProcessEach(FlushProcessed(ranges, current), dirty)

\* The offset of the range is passed on as it is.
AssistedRegion_NotRebased(r) ==
    Region(r.memory, r.offset,
           IF r.size = VK_WHOLE_SIZE
           THEN wrappers[r.memory].allocation_size - r.offset
           ELSE r.size)

\* The arguments of WriteFillMemoryCmd for one range of the assisted branch:
\* relative_offset = offset - mapped_offset, and size with VK_WHOLE_SIZE
\* replaced by allocation_size - offset.  The VkDeviceSize values are kept
\* as their two's complement reading: a negative value is a difference
\* that wrapped around.
AssistedRegion(r) ==
    Region(r.memory,
           r.offset - wrappers[r.memory].mapped_offset,
           IF r.size = VK_WHOLE_SIZE
           THEN wrappers[r.memory].allocation_size - r.offset
           ELSE r.size)

\* The assisted branch: one region per range whose memory is mapped.
RECURSIVE FlushAssisted(_)
FlushAssisted(ranges) ==
    IF ranges = << >> THEN << >>
    ELSE LET r == Head(ranges) IN
         IF r.memory # NullMemory /\ wrappers[r.memory].mapped_data
         THEN << AssistedRegion(r) >> \o FlushAssisted(Tail(ranges))
         ELSE FlushAssisted(Tail(ranges))

\* Memory objects named by ranges that are mapped.
FlushedMapped(ranges) ==
    { m \in Mems : wrappers[m].mapped_data
                   /\ \E i \in 1 .. Len(ranges) : ranges[i].memory = m }

\* TraceManager::PreProcess_vkFlushMappedMemoryRanges (pMemoryRanges != nullptr)
PreProcess_vkFlushMappedMemoryRanges(w, ranges, compressed_size) ==
    /\ Running
    /\ pc[w] = "idle"
    /\ Len(ops[w]) < MaxOps
    /\ \A i \in 1 .. Len(ranges) : ranges[i] \in FlushRange
    /\ IF memory_tracking_mode_ = "kPageGuard"
       THEN IF page_guard_
            THEN /\ MemoryHook_Return(w, ApiCall_vkFlushMappedMemoryRanges,
                                      FlushPageGuard(ranges, NullMemory, pg_dirty),
                                      compressed_size)
                 /\ pg_dirty' = pg_dirty \ FlushedMapped(ranges)
                 /\ UNCHANGED << wrappers, mapped_memory_, pg_tracked >>
            ELSE /\ MemoryHook_Fault(w)
                 /\ UNCHANGED << wrappers, mapped_memory_, pg_tracked, pg_dirty >>
       ELSE /\ MemoryHook_Return(w, ApiCall_vkFlushMappedMemoryRanges,
                                 IF memory_tracking_mode_ = "kAssisted"
                                 THEN FlushAssisted(ranges) ELSE << >>,
                                 compressed_size)
            /\ UNCHANGED << wrappers, mapped_memory_, pg_tracked, pg_dirty >>

\* The wrapper fields after unmap, stored by the hook or, with Track set, by
\* VulkanStateTracker::TrackMappedMemory(device, memory, nullptr, 0, 0, 0).
Unmapped(m) ==
    [wrappers EXCEPT ![m].mapped_data = FALSE, ![m].mapped_offset = 0,
                     ![m].mapped_size = 0]

\* Every wrapper passes for mapped.
IsMapped_Always(m) == TRUE

\* wrapper->mapped_data != nullptr
IsMapped(m) == wrappers[m].mapped_data

\* TraceManager::PreProcess_vkUnmapMemory.  The unassisted branch reads
\* mapped_size after the fields have been cleared.
PreProcess_vkUnmapMemory(w, m, compressed_size) ==
    /\ Running
    /\ pc[w] = "idle"
    /\ Len(ops[w]) < MaxOps
    /\ Live(m)
    /\ IF IsMapped(m)
       THEN /\ wrappers' = Unmapped(m)
            /\ IF memory_tracking_mode_ = "kPageGuard"
               THEN IF page_guard_
                    THEN /\ MemoryHook_Return(w, ApiCall_vkUnmapMemory,
                                              ProcessMemoryEntry(m, pg_dirty),
                                              compressed_size)
                         \* manager->RemoveMemory(wrapper->handle_id);
                         /\ pg_tracked' = [pg_tracked EXCEPT ![m] = 0]
                         /\ pg_dirty' = pg_dirty \ {m}
                         /\ UNCHANGED mapped_memory_
                    ELSE /\ MemoryHook_Fault(w)
                         /\ UNCHANGED << mapped_memory_, pg_tracked, pg_dirty >>
               ELSE IF memory_tracking_mode_ = "kUnassisted"
                    THEN /\ LET size == Unmapped(m)[m].mapped_size IN
                            MemoryHook_Return(
                                w, ApiCall_vkUnmapMemory,
                                << Region(m, 0,
                                          IF size = VK_WHOLE_SIZE
                                          THEN wrappers[m].allocation_size
                                          ELSE size) >>,
                                compressed_size)
                         /\ mapped_memory_' = mapped_memory_ \ {m}
                         /\ UNCHANGED << pg_tracked, pg_dirty >>
                    ELSE /\ MemoryHook_Return(w, ApiCall_vkUnmapMemory, << >>,
                                              compressed_size)
                         /\ UNCHANGED << mapped_memory_, pg_tracked, pg_dirty >>
       ELSE /\ MemoryHook_Return(w, ApiCall_vkUnmapMemory, << >>, compressed_size)
            /\ UNCHANGED << wrappers, mapped_memory_, pg_tracked, pg_dirty >>

\* TraceManager::PreProcess_vkFreeMemory, and the destruction of the wrapper
\* that follows the call.  Only the page-guard branch acts: mapped_memory_ is
\* not touched.
PreProcess_vkFreeMemory(w, m) ==
    /\ Running
    /\ pc[w] = "idle"
    /\ Live(m)
    /\ IF memory_tracking_mode_ = "kPageGuard" /\ IsMapped(m)
       THEN IF page_guard_
            THEN \* manager->RemoveMemory(wrapper->handle_id);
                 /\ pg_tracked' = [pg_tracked EXCEPT ![m] = 0]
                 /\ pg_dirty' = pg_dirty \ {m}
                 /\ wrappers' = [wrappers EXCEPT ![m].freed = TRUE]
                 /\ UNCHANGED fault
            ELSE /\ fault' = TRUE
                 /\ UNCHANGED << wrappers, pg_tracked, pg_dirty >>
       ELSE /\ wrappers' = [wrappers EXCEPT ![m].freed = TRUE]
            /\ UNCHANGED << pg_tracked, pg_dirty, fault >>
    /\ UNCHANGED << memCfg, mapped_memory_, fill_log, shim_call, host_ptr >>
    /\ UNCHANGED << status, modeVars, streamVars, file_lock_, threadVars, pc,
                    pending, histVars, ops >>
    /\ UNCHANGED << tidVars, pktVars, instVars, tmplVars, infoVars >>

\* One region per member of S that satisfies the manager's or the set's
\* condition, in increasing order from m.
RECURSIVE RegionsInOrder(_, _)
RegionsInOrder(m, region_of) ==
    IF m > NumMems THEN << >>
    ELSE region_of[m] \o RegionsInOrder(m + 1, region_of)

\* TraceManager::PreProcess_vkQueueSubmit: ProcessMemoryEntries in page-guard
\* mode; every member of mapped_memory_ in unassisted mode, with mapped_size
\* as stored.  The read of a destroyed wrapper through mapped_memory_ either
\* finds the fields as they were left or faults.
PreProcess_vkQueueSubmit(w, compressed_size) ==
    /\ Running
    /\ pc[w] = "idle"
    /\ Len(ops[w]) < MaxOps
    /\ \/ IF memory_tracking_mode_ = "kPageGuard"
          THEN IF page_guard_
               THEN /\ MemoryHook_Return(
                           w, ApiCall_vkQueueSubmit,
                           RegionsInOrder(1, [m \in Mems |->
                                                  ProcessMemoryEntry(m, pg_dirty)]),
                           compressed_size)
                    /\ pg_dirty' = {}
                    /\ UNCHANGED << wrappers, mapped_memory_, pg_tracked >>
               ELSE /\ MemoryHook_Fault(w)
                    /\ UNCHANGED << wrappers, mapped_memory_, pg_tracked,
                                    pg_dirty >>
          ELSE /\ MemoryHook_Return(
                      w, ApiCall_vkQueueSubmit,
                      IF memory_tracking_mode_ = "kUnassisted"
                      THEN RegionsInOrder(1, [m \in Mems |->
                               IF m \in mapped_memory_
                               THEN << Region(m, 0, wrappers[m].mapped_size) >>
                               ELSE << >>])
                      ELSE << >>,
                      compressed_size)
               /\ UNCHANGED << wrappers, mapped_memory_, pg_tracked, pg_dirty >>
       \/ /\ memory_tracking_mode_ = "kUnassisted"
          /\ \E m \in mapped_memory_ : wrappers[m].freed
          /\ MemoryHook_Fault(w)
          /\ UNCHANGED << wrappers, mapped_memory_, pg_tracked, pg_dirty >>

\* Inputs of the memory hooks.
AllocSizes == {MaxAlloc}
MemTrimConfigs == { << >>, << [first |-> 2, total |-> 1] >> }
MemCompressionTypes == {"kLz4"}

\* The application thread that makes the memory calls.
MemThreads == {1}

\* The shim of a call whose PreProcess hook has returned calls
\* InitApiCallTrace with that call's id, encodes, and calls EndApiCallTrace.
Shim_InitApiCallTrace(w, n) ==
    /\ pc[w] = "pre"
    /\ InitApiCallTrace(w, shim_call[w], n)

\* ------------------------------------------------------------------------
\* SpecTmpl: SetDescriptorUpdateTemplateInfo
\* ------------------------------------------------------------------------

\* Most entries in one create info.
MaxEntries == 3

\* Largest descriptorCount of an entry.
MaxDescriptorCount == 2

\* sizeof(VkDescriptorImageInfo), sizeof(VkDescriptorBufferInfo),
\* sizeof(VkBufferView) on a 64-bit target.
Sizeof_VkDescriptorImageInfo == 24
Sizeof_VkDescriptorBufferInfo == 24
Sizeof_VkBufferView == 8

\* The descriptor types of the three branches.
ImageTypes ==
    { "VK_DESCRIPTOR_TYPE_SAMPLER", "VK_DESCRIPTOR_TYPE_COMBINED_IMAGE_SAMPLER",
      "VK_DESCRIPTOR_TYPE_SAMPLED_IMAGE", "VK_DESCRIPTOR_TYPE_STORAGE_IMAGE",
      "VK_DESCRIPTOR_TYPE_INPUT_ATTACHMENT" }

BufferTypes ==
    { "VK_DESCRIPTOR_TYPE_UNIFORM_BUFFER", "VK_DESCRIPTOR_TYPE_STORAGE_BUFFER",
      "VK_DESCRIPTOR_TYPE_UNIFORM_BUFFER_DYNAMIC",
      "VK_DESCRIPTOR_TYPE_STORAGE_BUFFER_DYNAMIC" }

TexelBufferTypes ==
    { "VK_DESCRIPTOR_TYPE_UNIFORM_TEXEL_BUFFER",
      "VK_DESCRIPTOR_TYPE_STORAGE_TEXEL_BUFFER" }

\* The descriptor types the application passes: some of each branch, and one
\* that no branch names.
EntryTypes ==
    { "VK_DESCRIPTOR_TYPE_SAMPLER", "VK_DESCRIPTOR_TYPE_INPUT_ATTACHMENT",
      "VK_DESCRIPTOR_TYPE_STORAGE_BUFFER",
      "VK_DESCRIPTOR_TYPE_UNIFORM_TEXEL_BUFFER",
      "VK_DESCRIPTOR_TYPE_INLINE_UNIFORM_BLOCK_EXT" }

\* VkDescriptorUpdateTemplateEntry values the application passes.
Entries ==
    [ descriptorType : EntryTypes, dstBinding : {0}, dstArrayElement : {0},
      descriptorCount : 0 .. MaxDescriptorCount, offset : {0, 4},
      stride : {32} ]

\* UpdateTemplateInfo of a new wrapper.
NewUpdateTemplateInfo ==
    [ image_info |-> << >>, buffer_info |-> << >>,
      texel_buffer_view |-> << >>, image_info_count |-> 0,
      buffer_info_count |-> 0, texel_buffer_view_count |-> 0,
      max_size |-> 0 ]

TmplInit ==
    /\ create_info = << >>
    /\ info = NewUpdateTemplateInfo
    /\ tmpl_pc = "none"

\* UpdateTemplateEntryInfo filled from an entry.
EntryInfo(entry) ==
    [ binding |-> entry.dstBinding, array_element |-> entry.dstArrayElement,
      count |-> entry.descriptorCount, offset |-> entry.offset,
      stride |-> entry.stride, type |-> entry.descriptorType ]

\* The entry is put in a list although no branch names its type.
Sorted_UnsupportedAsImage(i, entry) ==
    IF entry.descriptorType \in BufferTypes
    THEN [i EXCEPT !.buffer_info_count = @ + entry.descriptorCount,
                   !.buffer_info = Append(@, EntryInfo(entry))]
    ELSE IF entry.descriptorType \in TexelBufferTypes
    THEN [i EXCEPT !.texel_buffer_view_count = @ + entry.descriptorCount,
                   !.texel_buffer_view = Append(@, EntryInfo(entry))]
    ELSE [i EXCEPT !.image_info_count = @ + entry.descriptorCount,
                   !.image_info = Append(@, EntryInfo(entry))]

\* The if / else if chain on the descriptor type: the count and the list of
\* the entry's kind; nothing for a type of no kind.
Sorted(i, entry) ==
    IF entry.descriptorType \in ImageTypes
    THEN [i EXCEPT !.image_info_count = @ + entry.descriptorCount,
                   !.image_info = Append(@, EntryInfo(entry))]
    ELSE IF entry.descriptorType \in BufferTypes
    THEN [i EXCEPT !.buffer_info_count = @ + entry.descriptorCount,
                   !.buffer_info = Append(@, EntryInfo(entry))]
    ELSE IF entry.descriptorType \in TexelBufferTypes
    THEN [i EXCEPT !.texel_buffer_view_count = @ + entry.descriptorCount,
                   !.texel_buffer_view = Append(@, EntryInfo(entry))]
    ELSE i

\* entry_size as the chain leaves it: 0 for a type of no kind.
EntrySize(type) ==
    IF type \in ImageTypes THEN Sizeof_VkDescriptorImageInfo
    ELSE IF type \in BufferTypes THEN Sizeof_VkDescriptorBufferInfo
    ELSE IF type \in TexelBufferTypes THEN Sizeof_VkBufferView
    ELSE 0

\* The max_size update at the end of the loop body.
WithMaxSize(i, entry) ==
    IF entry.descriptorCount > 0
    THEN LET max_size == ((entry.descriptorCount - 1) * entry.stride)
                             + entry.offset + EntrySize(entry.descriptorType)
         IN  IF max_size > i.max_size THEN [i EXCEPT !.max_size = max_size]
             ELSE i
    ELSE i

Supported(type) == type \in ImageTypes \cup BufferTypes \cup TexelBufferTypes

TmplFrame ==
    UNCHANGED << tidVars, pktVars, mainVars, memVars, instVars, infoVars >>

\* PreProcess_vkCreateDescriptorUpdateTemplate[KHR] for a new template, up
\* to the loop of SetDescriptorUpdateTemplateInfo.  With result != VK_SUCCESS
\* nothing is done.
PreProcess_vkCreateDescriptorUpdateTemplate(success) ==
    /\ tmpl_pc \in {"none", "done"}
    /\ create_info' = << >>
    /\ info' = NewUpdateTemplateInfo
    /\ tmpl_pc' = IF success THEN "loop" ELSE "done"
    /\ TmplFrame

\* One turn of the loop for an entry whose type one of the branches names.
SetDescriptorUpdateTemplateInfo_Entry(entry) ==
    /\ tmpl_pc = "loop"
    /\ Len(create_info) < MaxEntries
    /\ Supported(entry.descriptorType)
    /\ create_info' = Append(create_info, entry)
    /\ info' = WithMaxSize(Sorted(info, entry), entry)
    /\ UNCHANGED tmpl_pc
    /\ TmplFrame

\* One turn of the loop for an entry of another type, assert compiled out:
\* the error is logged and the loop goes on.
SetDescriptorUpdateTemplateInfo_Unsupported(entry) ==
    /\ tmpl_pc = "loop"
    /\ Len(create_info) < MaxEntries
    /\ ~Supported(entry.descriptorType)
    /\ create_info' = Append(create_info, entry)
    /\ info' = WithMaxSize(Sorted(info, entry), entry)
    /\ UNCHANGED tmpl_pc
    /\ TmplFrame

\* The same turn in a build with asserts: assert(false) ends the process.
SetDescriptorUpdateTemplateInfo_AssertFails(entry) ==
    /\ tmpl_pc = "loop"
    /\ Len(create_info) < MaxEntries
    /\ ~Supported(entry.descriptorType)
    /\ create_info' = Append(create_info, entry)
    /\ tmpl_pc' = "aborted"
    /\ UNCHANGED info
    /\ TmplFrame

\* i == descriptorUpdateEntryCount: the loop ends and the hook returns.
SetDescriptorUpdateTemplateInfo_Return ==
    /\ tmpl_pc = "loop"
    /\ tmpl_pc' = "done"
    /\ UNCHANGED << create_info, info >>
    /\ TmplFrame

TmplNext ==
    \/ \E success \in BOOLEAN : PreProcess_vkCreateDescriptorUpdateTemplate(success)
    \/ \E entry \in Entries : SetDescriptorUpdateTemplateInfo_Entry(entry)
    \/ \E entry \in Entries : SetDescriptorUpdateTemplateInfo_Unsupported(entry)
    \/ \E entry \in Entries : SetDescriptorUpdateTemplateInfo_AssertFails(entry)
    \/ SetDescriptorUpdateTemplateInfo_Return

\* Ranges per vkFlushMappedMemoryRanges call in SpecFlush.
MaxFlushRanges == 3

\* The first byte of a memory object, or of no object.
FirstByteRanges == [memory : Mems \cup {NullMemory}, offset : {0}, size : {1}]

\* Lists of 1 .. MaxFlushRanges such ranges.
FlushLists == UNION { [1 .. n -> FirstByteRanges] : n \in 1 .. MaxFlushRanges }

\* Page-guard mode, flushes with longer lists of ranges.
FlushNext ==
    \/ \E w \in Loader : CreateInstance_New(w)
    \/ \E w \in Loader, ranges \in InstTrimConfigs, ct \in MemCompressionTypes,
          opened \in BOOLEAN :
           CreateInstance_Initialize(w, ranges, ct, opened, "kPageGuard")
    \/ \E m \in Mems : HostWrite(m)
    \/ \E w \in MemThreads :
           \/ \E m \in Mems, ok \in BOOLEAN, size \in AllocSizes :
                  PostProcess_vkAllocateMemory(w, ok, m, size)
           \/ \E m \in Mems, ok \in BOOLEAN :
                  \E extent \in MapExtents(m) :
                      PostProcess_vkMapMemory(w, ok, m, extent[1], extent[2])
           \/ \E ranges \in FlushLists, c \in HookCompressedSizes :
                  PreProcess_vkFlushMappedMemoryRanges(w, ranges, c)
           \/ \E n \in HookParamSizes : Shim_InitApiCallTrace(w, n)
           \/ \E c \in HookCompressedSizes : EndApiCallTrace_Begin(w, c)
           \/ FileLock_AcquireAndWrite(w)
           \/ FileStream_Write(w)
           \/ FileLock_Release(w)

\* Inputs of the hooks and writers in SpecGuard.
GuardMems == {1}
GuardLists == { << r >> : r \in { x \in FirstByteRanges : x.memory \in GuardMems } }

\* The thread that presents, and so ends the frames.
FrameThreads == {2}

\* The trim ranges of SpecGuard: none, one frame from the first frame on,
\* one frame after a frame of tracking.
GuardTrimConfigs == MemTrimConfigs \cup { << [first |-> kFirstFrame, total |-> 1] >> }

\* Every writer and every memory hook on one thread, with the frames ended
\* by another: capture passes through Track-only, Write and Disabled.
GuardNext ==
    \/ \E w \in Loader : CreateInstance_New(w)
    \/ \E w \in Loader, ranges \in GuardTrimConfigs, ct \in MemCompressionTypes,
          opened \in BOOLEAN, mode \in TrackingModes :
           CreateInstance_Initialize(w, ranges, ct, opened, mode)
    \/ \E m \in GuardMems : HostWrite(m)
    \/ \E w \in MemThreads :
           \/ \E m \in GuardMems, size \in AllocSizes :
                  PostProcess_vkAllocateMemory(w, TRUE, m, size)
           \/ \E m \in GuardMems :
                  PostProcess_vkMapMemory(w, TRUE, m, 0, VK_WHOLE_SIZE)
           \/ \E ranges \in GuardLists, c \in HookCompressedSizes :
                  PreProcess_vkFlushMappedMemoryRanges(w, ranges, c)
           \/ \E m \in GuardMems, c \in HookCompressedSizes :
                  PreProcess_vkUnmapMemory(w, m, c)
           \/ \E c \in HookCompressedSizes : PreProcess_vkQueueSubmit(w, c)
           \/ \E n \in HookParamSizes : Shim_InitApiCallTrace(w, n)
           \/ \E c \in HookCompressedSizes : EndApiCallTrace_Begin(w, c)
           \/ \E n \in HookParamSizes : WriteDisplayMessageCmd(w, n)
           \/ \E id \in GuardMems : WriteResizeWindowCmd(w, id, 1, 1)
           \/ FileLock_AcquireAndWrite(w)
           \/ FileStream_Write(w)
           \/ FileLock_Release(w)
    \/ \E w \in FrameThreads :
           \/ EndFrame_Begin(w)
           \/ EndFrame_CloseStream(w)
           \/ EndFrame_Advance(w)
           \/ \E opened \in BOOLEAN : ActivateTrimming_Open(w, opened)
           \/ ActivateTrimming_Write(w)
           \/ ActivateTrimming_SetWrite(w)
           \/ EndFrame_Return(w)

MemNext ==
    \/ \E w \in Loader : CreateInstance_New(w)
    \/ \E w \in Loader, ranges \in MemTrimConfigs, ct \in MemCompressionTypes,
          opened \in BOOLEAN, mode \in TrackingModes :
           CreateInstance_Initialize(w, ranges, ct, opened, mode)
    \/ \E m \in Mems : HostWrite(m)
    \/ \E w \in MemThreads :
           \/ \E m \in Mems, ok \in BOOLEAN, size \in AllocSizes :
                  PostProcess_vkAllocateMemory(w, ok, m, size)
           \/ \E m \in Mems, ok \in BOOLEAN :
                  \E extent \in MapExtents(m) :
                      PostProcess_vkMapMemory(w, ok, m, extent[1], extent[2])
           \/ \E ranges \in RangeLists, c \in HookCompressedSizes :
                  PreProcess_vkFlushMappedMemoryRanges(w, ranges, c)
           \/ \E m \in Mems, c \in HookCompressedSizes :
                  PreProcess_vkUnmapMemory(w, m, c)
           \/ \E c \in HookCompressedSizes : PreProcess_vkQueueSubmit(w, c)
           \/ \E n \in HookParamSizes : Shim_InitApiCallTrace(w, n)
           \/ \E c \in HookCompressedSizes : EndApiCallTrace_Begin(w, c)
           \/ FileLock_AcquireAndWrite(w)
           \/ FileStream_Write(w)
           \/ FileLock_Release(w)

MainNext ==
    \/ \E w \in Loader : CreateInstance_New(w)
    \/ \E w \in Loader, ranges \in HookTrimConfigs, ct \in CompressionTypes,
          opened \in BOOLEAN :
           CreateInstance_Initialize(w, ranges, ct, opened, "kPageGuard")
    \/ \E w \in Workers :
           \/ \E n \in HookParamSizes :
                  InitApiCallTrace(w, HookCallId(Len(ops[w])), n)
           \/ \E c \in HookCompressedSizes : EndApiCallTrace_Begin(w, c)
           \/ \E n \in HookParamSizes : WriteDisplayMessageCmd(w, n)
           \/ FileLock_AcquireAndWrite(w)
           \/ FileStream_Write(w)
           \/ FileLock_Release(w)
           \/ EndFrame_Begin(w)
           \/ EndFrame_CloseStream(w)
           \/ EndFrame_Advance(w)
           \/ \E opened \in BOOLEAN : ActivateTrimming_Open(w, opened)
           \/ ActivateTrimming_Write(w)
           \/ ActivateTrimming_SetWrite(w)
           \/ EndFrame_Return(w)

\* ------------------------------------------------------------------------
\* SpecInfo: FileProcessorInfo::ProcessMetaData (tools/capture-info)
\* ------------------------------------------------------------------------

\* Largest meta-data type of the blocks read.
MaxMetaDataType == 33

\* format::ApiFamilyId values in the upper 16 bits of a MetaDataId.
ApiFamilies == 0 .. 2

\* format::MetaDataId values of the blocks read: (api_family << 16) | type.
MetaDataIds ==
    { api * 65536 + type : api \in ApiFamilies, type \in 0 .. MaxMetaDataType }

\* const char *metadata_strings[]
metadata_strings ==
    << "kUnknownMetaDataType",
       "kDisplayMessageCommand",
       "kFillMemoryCommand",
       "kResizeWindowCommand",
       "kSetSwapchainImageStateCommand",
       "kBeginResourceInitCommand",
       "kEndResourceInitCommand",
       "kInitBufferCommand",
       "kInitImageCommand",
       "kCreateHardwareBufferCommand_deprecated",
       "kDestroyHardwareBufferCommand",
       "kSetDevicePropertiesCommand",
       "kSetDeviceMemoryPropertiesCommand",
       "kResizeWindowCommand2",
       "kSetOpaqueAddressCommand",
       "kSetRayTracingShaderGroupHandlesCommand",
       "kCreateHeapAllocationCommand",
       "kInitSubresourceCommand",
       "kExeFileInfoCommand",
       "kInitDx12AccelerationStructureCommand",
       "kFillMemoryResourceValueCommand",
       "kDxgiAdapterInfoCommand",
       "kDriverInfoCommand",
       "kReserved23",
       "kCreateHardwareBufferCommand",
       "kReserved25",
       "kDx12RuntimeInfoCommand",
       "kParentToChildDependency",
       "kReserved28",
       "kReserved29",
       "kReserved30",
       "kReserved31" >>

\* What the console shows when the pointer read past the end of the table is
\* printed with %s.
GarbageName == "<out of bounds>"

\* meta_data_id & 0x0000ffff
MetaDataIndex(id) == id % 65536

InfoInit ==
    /\ meta_data_id = 0
    /\ base_result = FALSE
    /\ console = ""
    /\ info_return = FALSE
    /\ info_pc = "read"

\* The base FileProcessor has read a meta-data block with this id and calls
\* the virtual ProcessMetaData; result is what its own ProcessMetaData will
\* return for the block.
FileProcessor_ReadMetaDataBlock(id, result) ==
    /\ info_pc = "read"
    /\ meta_data_id' = id
    /\ base_result' = result
    /\ info_pc' = "meta"
    /\ UNCHANGED << console, info_return >>
    /\ UNCHANGED << tidVars, pktVars, mainVars, memVars, instVars, tmplVars >>

\* FileProcessorInfo::ProcessMetaData: prints the block's name from
\* metadata_strings and returns the base class's result.  An index past the
\* table reads whatever lies behind it: the call prints that, or the process
\* ends.
ProcessMetaData ==
    /\ info_pc = "meta"
    /\ LET index == MetaDataIndex(meta_data_id) IN
       IF index < Len(metadata_strings)
       THEN /\ console' = metadata_strings[index + 1]
            /\ info_return' = base_result
            /\ info_pc' = "read"
       ELSE \/ /\ console' = GarbageName
               /\ info_return' = base_result
               /\ info_pc' = "read"
            \/ /\ info_pc' = "crashed"
               /\ UNCHANGED << console, info_return >>
    /\ UNCHANGED << meta_data_id, base_result >>
    /\ UNCHANGED << tidVars, pktVars, mainVars, memVars, instVars, tmplVars >>

InfoNext ==
    \/ \E id \in MetaDataIds, result \in BOOLEAN :
           FileProcessor_ReadMetaDataBlock(id, result)
    \/ ProcessMetaData

Init ==
    /\ TidInit /\ PktInit /\ MainInit /\ MemInit /\ InstInit /\ TmplInit
    /\ InfoInit

SpecTid == Init /\ [][TidNext]_vars

SpecPkt == Init /\ [][PktNext]_vars

Spec == Init /\ [][MainNext]_vars

SpecMem == Init /\ [][MemNext]_vars

\* Initialize in each tracking mode, then memory objects allocated, mapped,
\* unmapped and freed and queues submitted by one thread, without trimming.
FreeNext ==
    \/ \E w \in Loader : CreateInstance_New(w)
    \/ \E w \in Loader, ct \in MemCompressionTypes, opened \in BOOLEAN,
          mode \in TrackingModes :
           CreateInstance_Initialize(w, << >>, ct, opened, mode)
    \/ \E w \in MemThreads :
           \/ \E m \in Mems, ok \in BOOLEAN, size \in AllocSizes :
                  PostProcess_vkAllocateMemory(w, ok, m, size)
           \/ \E m \in Mems, ok \in BOOLEAN, offset \in 0 .. MaxAlloc - 1,
                 size \in (1 .. MaxAlloc) \cup {VK_WHOLE_SIZE} :
                  PostProcess_vkMapMemory(w, ok, m, offset, size)
           \/ \E m \in Mems, c \in HookCompressedSizes :
                  PreProcess_vkUnmapMemory(w, m, c)
           \/ \E m \in Mems : PreProcess_vkFreeMemory(w, m)
           \/ \E c \in HookCompressedSizes : PreProcess_vkQueueSubmit(w, c)
           \/ \E n \in HookParamSizes : Shim_InitApiCallTrace(w, n)
           \/ \E c \in HookCompressedSizes : EndApiCallTrace_Begin(w, c)
           \/ FileLock_AcquireAndWrite(w)
           \/ FileStream_Write(w)
           \/ FileLock_Release(w)

SpecFree == Init /\ [][FreeNext]_vars

SpecInst == Init /\ [][InstNext]_vars

SpecFlush == Init /\ [][FlushNext]_vars

SpecGuard == Init /\ [][GuardNext]_vars

SpecTmpl == Init /\ [][TmplNext]_vars

SpecInfo == Init /\ [][InfoNext]_vars

\* ------------------------------------------------------------------------
\* Write-path claims (Spec)
\* ------------------------------------------------------------------------

\* No EndFrame call is in progress: frame_no is the frame being rendered.
BetweenFrames == \A w \in Workers : pc[w] = "idle"

FunctionCallTypes == {"FunctionCallBlock", "CompressedFunctionCallBlock"}

\* A file entry that is the header of a function-call packet.
IsCallHeader(x) == x.e.k = "hdr" /\ x.e.type \in FunctionCallTypes

\* A file entry written by a hook (not by WriteFileHeader or WriteState).
IsHookEntry(x) == x.q > 0

\* Payload bytes a function-call header announces.
AnnouncedPayload(h) ==
    IF h.type = "CompressedFunctionCallBlock"
    THEN h.size - (Sizeof_CompressedFunctionCallHeader - Sizeof_block_header)
    ELSE h.size - (Sizeof_FunctionCallHeader - Sizeof_block_header)

\* Function calls thread w has begun.
CallsOf(w) == { q \in 1 .. Len(ops[w]) : ops[w][q].kind = "FunctionCall" }

\* Every function-call header in d is directly followed by its own payload
\* (or is the last entry, its writer being inside the critical section), and
\* every payload directly follows its header.
Contiguous(d) ==
    /\ \A i \in 1 .. Len(d) :
           IsCallHeader(d[i]) =>
               IF i < Len(d)
               THEN /\ d[i + 1].e.k = "data"
                    /\ d[i + 1].w = d[i].w
                    /\ d[i + 1].q = d[i].q
                    /\ d[i + 1].e.len = AnnouncedPayload(d[i].e)
               ELSE pc[d[i].w] = "call_write" /\ pending[d[i].w] # << >>
    /\ \A i \in 1 .. Len(d) :
           (d[i].e.k = "data" /\ IsHookEntry(d[i])) =>
               /\ i > 1
               /\ d[i - 1].e.k = "hdr"
               /\ d[i - 1].w = d[i].w
               /\ d[i - 1].q = d[i].q

RECURSIVE AllData(_)
AllData(n) == IF n = 0 THEN << >> ELSE AllData(n - 1) \o files[n].data

IsHookHeaderOf(w, x) == x.w = w /\ IsHookEntry(x) /\ x.e.k = "hdr"

\* The packet headers thread w has written, in stream order.
HeadersOf(w) ==
    LET all == AllData(Len(files))
        RECURSIVE Pick(_)
        Pick(i) == IF i > Len(all) THEN << >>
                   ELSE IF IsHookHeaderOf(w, all[i])
                        THEN << all[i] >> \o Pick(i + 1)
                        ELSE Pick(i + 1)
    IN  Pick(1)

\* C8: the packets a thread emits (function-call and metadata) appear in the
\* stream in the order the thread issued them, under any interleaving; each
\* function-call packet carries the call id set by that thread's most recent
\* InitApiCallTrace and that thread's logical id.
C8_PerThreadOrder ==
    \A w \in Workers :
        LET hs == HeadersOf(w) IN
        \A i \in 1 .. Len(hs) :
            /\ hs[i].q \in 1 .. Len(ops[w])
            /\ i < Len(hs) => hs[i].q < hs[i + 1].q
            /\ hs[i].e.tid = w
            /\ LET o == ops[w][hs[i].q] IN
               IF o.kind = "FunctionCall"
               THEN IsCallHeader(hs[i]) /\ hs[i].e.f[1] = o.call
               ELSE hs[i].e.type = "MetaDataBlock" /\ hs[i].e.meta = o.kind

\* A thread has written a function-call packet and then a second one with
\* another call id, a packet of another thread lying in between.
C8_Witness ==
    \E w \in Workers :
        LET all == AllData(Len(files)) IN
        \E i, j, l \in 1 .. Len(all) :
            /\ i < j /\ j < l
            /\ IsHookHeaderOf(w, all[i]) /\ IsHookHeaderOf(w, all[l])
            /\ IsCallHeader(all[i]) /\ IsCallHeader(all[l])
            /\ all[i].e.f[1] # all[l].e.f[1]
            /\ all[j].w # w /\ IsHookEntry(all[j])

\* C9: in any trim file opened by ActivateTrimming (a range starting at frame
\* f > 1), every packet written by WriteState precedes, in file order, every
\* packet written by a hook on any thread.
C9_SnapshotPrecedesHookPackets ==
    \A fi \in 1 .. Len(files) :
        files[fi].by = "ActivateTrimming" =>
            LET d == files[fi].data IN
            \A i, j \in 1 .. Len(d) :
                (IsHookEntry(d[i]) /\ d[j].e.k = "state") => j < i

\* EndApiCallTrace returns to thread w: from the mode test when Write is
\* clear, from the end of the critical section otherwise.
EndApiCallTraceReturnStep(w) ==
    /\ pc[w] \in {"end", "call_write"}
    /\ pc'[w] = "idle"

\* The number of parameter bytes a function-call packet stands for: the
\* uncompressed_size field of a compressed packet, the payload length the
\* size field gives for an uncompressed one.
EncodedBytes(hdr) ==
    IF hdr.type = "CompressedFunctionCallBlock"
    THEN hdr.f[2]
    ELSE hdr.size - Sizeof_api_call_id - Sizeof_thread_id

\* C28: after every return of EndApiCallTrace, in any capture mode and on the
\* compressed and the uncompressed path, the calling thread's parameter
\* buffer has length 0; so every function-call packet in a file stands for
\* the bytes of one call (every call of the model encodes a number of bytes
\* from HookParamSizes), never for those of an earlier call as well.
C28_EncoderReset ==
    /\ [][\A w \in Workers :
              EndApiCallTraceReturnStep(w) => param_len'[w] = 0]_vars
    /\ [](\A w \in Workers :
              LET hs == HeadersOf(w) IN
              \A i \in 1 .. Len(hs) :
                  IsCallHeader(hs[i]) => EncodedBytes(hs[i].e) \in HookParamSizes)

\* A thread has written the packets of two calls, one compressed and one
\* not, and is back from the second.
C28_Witness ==
    \E w \in Workers :
        /\ pc[w] = "idle"
        /\ param_len[w] = 0
        /\ LET hs == HeadersOf(w) IN
           /\ Len(hs) = MaxOps
           /\ \A i \in 1 .. Len(hs) : IsCallHeader(hs[i])

\* The step closes or replaces the stream, or appends to a file.
StreamAccessStep ==
    file_stream_' # file_stream_ \/ files' # files

\* The step is a write of the thread that holds file_lock_.
WriteByLockHolder ==
    \E w \in Workers :
        /\ file_lock_' = w
        /\ pending'[w] # pending[w]
        /\ file_stream_' = file_stream_

\* C30: once the instance is in use, under any interleaving of EndFrame on
\* one thread with EndApiCallTrace or a metadata writer on another, no thread
\* writes through a null file_stream_, and every close or replacement of the
\* stream and every write to it is made by a thread that holds file_lock_.
C30_StreamAccessUnderLock ==
    /\ [](~fault)
    /\ [][(status = "ready" /\ StreamAccessStep) => WriteByLockHolder]_vars

\* Some call of ActivateTrimming could not open its file.
FailedActivation ==
    \E k \in 1 .. Len(activations) : ~activations[k].opened

\* A step seen from a failed activation: the state it leads to is Disabled
\* with trim off and without a file for the range, and once the activation has
\* failed nothing is written to any file.
AfterFailedActivationStep ==
    /\ FailedActivation' =>
           /\ capture_mode_' = kModeDisabled
           /\ ~trim_enabled_'
           /\ \A k \in 1 .. Len(activations') :
                  ~activations'[k].opened =>
                      \A fi \in 1 .. Len(files') :
                          files'[fi].range
                              # cfg_ranges'[activations'[k].range].first
    /\ FailedActivation => files' = files

\* C15: if opening the trim capture file fails in ActivateTrimming, the
\* capture mode becomes Disabled, trim is disabled, no state snapshot and no
\* packet is written, and every later EndFrame and hook call leaves the mode
\* Disabled.
C15_FailedActivationDisables == [][AfterFailedActivationStep]_vars

\* After a failed activation a later EndFrame has returned and a thread has
\* made its calls; nothing but the earlier file exists.
C15_Witness ==
    /\ FailedActivation
    /\ BetweenFrames
    /\ frame_no > activations[Len(activations)].frame
    /\ \E w \in Workers : Len(ops[w]) = MaxOps
    /\ capture_mode_ = kModeDisabled

\* C33: in unassisted mode every wrapper in the mapped-memory set is
\* currently mapped and has not been freed: a free without a prior unmap
\* removes the wrapper from the set, so that queue submit never reads a
\* freed wrapper.
C33_MappedSetIsLive ==
    memory_tracking_mode_ = "kUnassisted" =>
        \A m \in mapped_memory_ :
            /\ wrappers[m].mapped_data
            /\ ~wrappers[m].freed

\* C34: in page-guard mode the byte count registered with AddMemory by a
\* successful first map with offset o of a memory object of allocation_size A
\* is at most A - o, also when the size passed is VK_WHOLE_SIZE and o > 0:
\* the tracked region does not extend past the end of the allocation.
C34_RegistrationInBounds ==
    memory_tracking_mode_ = "kPageGuard" =>
        \A m \in Mems :
            (wrappers[m].mapped_data /\ pg_tracked[m] > 0) =>
                pg_tracked[m] <=
                    wrappers[m].allocation_size - wrappers[m].mapped_offset

\* ------------------------------------------------------------------------
\* Instance-lifecycle claims (SpecInst)
\* ------------------------------------------------------------------------

\* No thread is inside CreateInstance.
InstanceLockFree == instance_lock_ = NoThread

\* instance_count_ has gone below zero: the uint32_t holds a value that no
\* sequence of increments of the model reaches.
CountWrapped == instance_count_ < 0

\* C16: if the capture file cannot be created or the compression algorithm
\* is unknown, Initialize returns failure with the capture mode Disabled,
\* and every later hook, CreateInstance and DestroyInstance included,
\* completes without writing a byte and without reaching an error or
\* assertion state.
C16_FailedInitializeIsNoOp ==
    status = "failed" =>
        /\ capture_mode_ = kModeDisabled
        /\ ~assert_failed
        /\ ~CountWrapped
        /\ ~fault

\* C17: after any sequence of CreateInstance, DestroyInstance and
\* CheckCreateInstanceStatus calls from any threads, the singleton exists iff
\* the reference count is greater than 0 and the count never goes below 0.
C17_SingletonIffCounted ==
    /\ InstanceLockFree => (instance_ <=> instance_count_ # 0)
    /\ ~CountWrapped

\* The reference count and the existence of the singleton.
InstanceState == << instance_count_, instance_ >>

\* Thread w returns from CheckCreateInstanceStatus in this step.
CheckCreateInstanceStatusStep(w) ==
    inst_pc[w] = "check" /\ inst_pc'[w] = "idle"

\* A CheckCreateInstanceStatus call seen with the CreateInstance call before
\* it: a failing result restores what that CreateInstance found (when no
\* other thread changed it in between), VK_SUCCESS changes nothing.
CheckInvertsCreateStep ==
    \A w \in Workers :
        CheckCreateInstanceStatusStep(w) =>
            IF check_result'[w] # "VK_SUCCESS"
            THEN InstanceState = inst_after[w] =>
                     InstanceState' = inst_before[w]
            ELSE InstanceState' = InstanceState

\* C18: a CreateInstance call followed by CheckCreateInstanceStatus(result)
\* with result != VK_SUCCESS leaves the reference count and the existence of
\* the singleton exactly as they were before the CreateInstance call; with
\* result == VK_SUCCESS it changes nothing.
C18_CheckInvertsCreate == [][CheckInvertsCreateStep]_vars

\* ------------------------------------------------------------------------
\* Memory-hook claims (SpecMem)
\* ------------------------------------------------------------------------

\* A file entry that is the header of a fill-memory packet.
IsFillHeader(x) == x.e.k = "hdr" /\ x.e.meta = "FillMemoryCommand"

HarvestingCalls ==
    { ApiCall_vkFlushMappedMemoryRanges, ApiCall_vkUnmapMemory,
      ApiCall_vkQueueSubmit }

\* C10: within one thread, every FillMemoryCommand packet produced by
\* PreProcess_vkFlushMappedMemoryRanges, PreProcess_vkUnmapMemory or
\* PreProcess_vkQueueSubmit is in the stream before the function-call packet
\* of that same flush / unmap / submit call: each region a hook handed to
\* WriteFillMemoryCmd while Write was set has its packet in the stream when
\* the hook has returned, and no fill-memory packet of a call follows that
\* call's function-call packet.
C10_FillBeforeConsumer ==
    LET all == AllData(Len(files)) IN
    /\ \A k \in 1 .. Len(fill_log) :
           fill_log[k].write =>
               \E i \in 1 .. Len(all) :
                   /\ IsFillHeader(all[i])
                   /\ all[i].w = fill_log[k].w
                   /\ all[i].q = fill_log[k].q
                   /\ all[i].e.tid = fill_log[k].w
                   /\ all[i].e.f = << fill_log[k].region.memory_id,
                                      fill_log[k].region.offset,
                                      fill_log[k].region.size >>
    /\ \A i, j \in 1 .. Len(all) :
           ( /\ IsFillHeader(all[i])
             /\ IsCallHeader(all[j])
             /\ all[i].w = all[j].w
             /\ all[i].q = all[j].q ) =>
               /\ i < j
               /\ all[j].e.f[1] \in HarvestingCalls

\* A vkQueueSubmit call packet is in the stream, two fill-memory packets of
\* the same call before it.
C10_Witness ==
    LET all == AllData(Len(files)) IN
    \E i, j, l \in 1 .. Len(all) :
        /\ i < j /\ j < l
        /\ IsFillHeader(all[i]) /\ IsFillHeader(all[j]) /\ IsCallHeader(all[l])
        /\ all[i].q = all[l].q /\ all[j].q = all[l].q
        /\ all[i].w = all[l].w /\ all[j].w = all[l].w
        /\ all[l].e.f[1] = ApiCall_vkQueueSubmit

\* Initialize and EndFrame alone, over every legal trim configuration.
FramesNext ==
    \/ \E w \in Loader : CreateInstance_New(w)
    \/ \E w \in Loader, ranges \in TrimConfigs, ct \in CompressionTypes,
          opened \in BOOLEAN, mode \in TrackingModes :
           CreateInstance_Initialize(w, ranges, ct, opened, mode)
    \/ \E w \in Workers :
           \/ EndFrame_Begin(w)
           \/ EndFrame_CloseStream(w)
           \/ EndFrame_Advance(w)
           \/ \E opened \in BOOLEAN : ActivateTrimming_Open(w, opened)
           \/ ActivateTrimming_Write(w)
           \/ ActivateTrimming_SetWrite(w)
           \/ EndFrame_Return(w)

SpecFrames == Init /\ [][FramesNext]_vars

\* The pointer the tracker returned when it was given the mapping of m.
EffectivePointer(m) ==
    AddMemory(m, MappedPointer(m, wrappers[m].mapped_offset), pg_tracked[m],
              FALSE)

\* C19: after every successful PostProcess_vkMapMemory in page-guard mode the
\* host pointer handed back to the application is the effective pointer
\* AddMemory returned for that memory object, also when the object is mapped
\* again while already mapped.
C19_PointerSubstituted ==
    \A m \in Mems :
        ( /\ memory_tracking_mode_ = "kPageGuard"
          /\ ~fault
          /\ wrappers[m].mapped_data
          /\ host_ptr[m] # NoPointer ) =>
            host_ptr[m] = EffectivePointer(m)

\* The FillMemoryCommand packets in the files that carry the k-th region the
\* hooks handed to WriteFillMemoryCmd.
FillPacketsOf(k) ==
    LET all == AllData(Len(files)) IN
    { i \in 1 .. Len(all) :
        /\ IsFillHeader(all[i])
        /\ all[i].w = fill_log[k].w
        /\ all[i].q = fill_log[k].q
        /\ all[i].e.f = << fill_log[k].region.memory_id,
                           fill_log[k].region.offset,
                           fill_log[k].region.size >> }

\* C20 as stated: in page-guard mode every dirty region the tracker hands
\* over at a flush, queue submit or unmap is in the file as exactly one
\* FillMemoryCommand, whatever the capture mode is at that moment.
C20_DirtyWriteDelivered ==
    memory_tracking_mode_ = "kPageGuard" =>
        \A k \in 1 .. Len(fill_log) : Cardinality(FillPacketsOf(k)) = 1

\* C20 amended: in page-guard mode a dirty region handed over at a flush,
\* queue submit or unmap is in the file as exactly one FillMemoryCommand
\* when the Write bit is set at that moment, and in no packet when it is
\* clear.
C20_DirtyWriteDeliveredWhileWriting ==
    memory_tracking_mode_ = "kPageGuard" =>
        \A k \in 1 .. Len(fill_log) :
            Cardinality(FillPacketsOf(k)) = IF fill_log[k].write THEN 1 ELSE 0

\* In page-guard mode a host write has been harvested with the Write bit set
\* and its packet is in the file.
C20_Witness ==
    /\ memory_tracking_mode_ = "kPageGuard"
    /\ \E k \in 1 .. Len(fill_log) :
           fill_log[k].write /\ FillPacketsOf(k) # {}

\* Thread w runs the memory hook of call_id in this step and returns to its
\* shim.
MemoryHookStep(w, call_id) ==
    pc[w] = "idle" /\ pc'[w] = "pre" /\ shim_call'[w] = call_id

\* The step unmaps no wrapper: the wrapper passed to PreProcess_vkUnmapMemory
\* was not mapped.
NoWrapperUnmapped ==
    \A m \in Mems : wrappers[m].mapped_data => wrappers'[m].mapped_data

\* PreProcess_vkUnmapMemory on a wrapper that is not mapped changes nothing.
UnmapOfUnmappedStep ==
    \A w \in Workers :
        (MemoryHookStep(w, ApiCall_vkUnmapMemory) /\ NoWrapperUnmapped) =>
            /\ files' = files
            /\ fill_log' = fill_log
            /\ pg_tracked' = pg_tracked
            /\ pg_dirty' = pg_dirty
            /\ wrappers' = wrappers
            /\ mapped_memory_' = mapped_memory_
            /\ capture_mode_' = capture_mode_

\* C21: PreProcess_vkUnmapMemory on a wrapper that is not mapped emits no
\* packet, calls neither ProcessMemoryEntry nor RemoveMemory, and leaves the
\* wrapper fields, the mapped-memory set and the capture mode unchanged, in
\* every memory-tracking mode.
C21_IdempotentUnmap == [][UnmapOfUnmappedStep]_vars

\* vkUnmapMemory has been called, in unassisted mode with Write on, for an
\* allocated wrapper while no wrapper has ever been mapped.
C21_Witness ==
    /\ memory_tracking_mode_ = "kUnassisted"
    /\ WriteOn
    /\ \E w \in Workers : pc[w] = "pre" /\ shim_call[w] = ApiCall_vkUnmapMemory
    /\ \E m \in Mems : wrappers[m].allocation_size > 0
    /\ \A m \in Mems : host_ptr[m] = NoPointer /\ ~wrappers[m].mapped_data
    /\ fill_log = << >>

\* The mapped extent of wrapper m in bytes: mapped_size, VK_WHOLE_SIZE
\* standing for the whole allocation.
MappedExtent(m) ==
    IF wrappers[m].mapped_size = VK_WHOLE_SIZE
    THEN wrappers[m].allocation_size
    ELSE wrappers[m].mapped_size

\* The step appends exactly the given regions to the log of WriteFillMemoryCmd
\* calls, each with one FillMemoryCommand packet in the file: a region given
\* n times has n packets.
FillsEmitted(regions) ==
    /\ Len(fill_log') = Len(fill_log) + Len(regions)
    /\ \A i \in 1 .. Len(regions) :
           \E k \in {Len(fill_log) + i} :
               /\ fill_log'[k].region = regions[i]
               /\ Cardinality(FillPacketsOf(k)') =
                      Cardinality({ j \in 1 .. Len(regions) :
                                      regions[j] = regions[i] })

\* PreProcess_vkUnmapMemory of the mapped wrapper m in unassisted mode with
\* Write on: one fill of the mapped extent, and m leaves the mapped set.
UnassistedUnmapStep ==
    \A w \in Workers, m \in Mems :
        ( /\ MemoryHookStep(w, ApiCall_vkUnmapMemory)
          /\ memory_tracking_mode_ = "kUnassisted"
          /\ WriteOn
          /\ wrappers[m].mapped_data
          /\ ~wrappers'[m].mapped_data ) =>
            /\ FillsEmitted(<< Region(m, 0, MappedExtent(m)) >>)
            /\ mapped_memory_' = mapped_memory_ \ {m}

\* C22: in unassisted mode with Write on, PreProcess_vkUnmapMemory of a
\* mapped wrapper emits exactly one FillMemoryCommand with offset 0 and
\* memory_size equal to the wrapper's mapped extent at the time of the call
\* (VK_WHOLE_SIZE resolved), and removes the wrapper from the mapped-memory
\* set.
C22_UnassistedUnmapFillsExtent == [][UnassistedUnmapStep]_vars

\* PreProcess_vkQueueSubmit in unassisted mode with Write on: one fill of
\* the mapped extent per mapped wrapper, and nothing else changes.
UnassistedSubmitStep ==
    \A w \in Workers :
        ( /\ MemoryHookStep(w, ApiCall_vkQueueSubmit)
          /\ memory_tracking_mode_ = "kUnassisted"
          /\ WriteOn ) =>
            /\ FillsEmitted(RegionsInOrder(1, [m \in Mems |->
                   IF wrappers[m].mapped_data
                   THEN << Region(m, 0, MappedExtent(m)) >>
                   ELSE << >>]))
            /\ wrappers' = wrappers
            /\ mapped_memory_' = mapped_memory_

\* C23: in unassisted mode with Write on, each PreProcess_vkQueueSubmit emits
\* exactly one FillMemoryCommand per currently mapped wrapper, with offset 0
\* and memory_size equal to the mapped extent with VK_WHOLE_SIZE resolved to
\* a byte count, and leaves the mapped-memory set and the wrapper fields
\* unchanged.
C23_UnassistedSubmitFillsExtent == [][UnassistedSubmitStep]_vars

\* The range names a memory object that is mapped.
RangeIsMapped(r) == r.memory # NullMemory /\ wrappers[r.memory].mapped_data

\* The ranges of a list whose memory is mapped, in list order.
MappedRanges(ranges) == SelectSeq(ranges, RangeIsMapped)

\* The region the assisted flush passes on for a range whose memory is
\* mapped is the range re-based to the mapped pointer.
AssistedRegionAsStated(r) ==
    LET out == AssistedRegion(r) IN
    /\ out.memory_id = r.memory
    /\ out.offset + wrappers[r.memory].mapped_offset = r.offset
    /\ IF r.size = VK_WHOLE_SIZE
       THEN out.size + r.offset = wrappers[r.memory].allocation_size
       ELSE out.size = r.size
    /\ ( /\ r.offset >= wrappers[r.memory].mapped_offset
         /\ r.offset <= wrappers[r.memory].allocation_size ) =>
           out.offset >= 0 /\ out.size >= 0

\* An assisted flush with Write on puts one FillMemoryCommand in the file
\* for each range whose memory is mapped, of some list of ranges it may have
\* been given, and nothing for the other ranges.
AssistedFlushStep ==
    \A w \in Workers :
        ( /\ MemoryHookStep(w, ApiCall_vkFlushMappedMemoryRanges)
          /\ memory_tracking_mode_ = "kAssisted"
          /\ WriteOn ) =>
            \E ranges \in RangeLists :
                /\ \A i \in 1 .. Len(ranges) : ranges[i] \in FlushRange
                /\ FillsEmitted([i \in 1 .. Len(MappedRanges(ranges)) |->
                                     AssistedRegion(MappedRanges(ranges)[i])])

DoubleMapStep ==
    \E w \in MemThreads, m \in Mems, offset \in 0 .. MaxAlloc - 1,
      size \in (1 .. MaxAlloc) \cup {VK_WHOLE_SIZE} :
        /\ wrappers[m].mapped_data
        /\ PostProcess_vkMapMemory(w, TRUE, m, offset, size)

\* C26: PostProcess_vkMapMemory on a wrapper that is already mapped registers
\* nothing (the page-guard manager's tracked memory and the mapped-memory set
\* stay as they are), emits no packet (no fill command, nothing staged,
\* nothing written) and leaves every field of every wrapper unchanged.
C26_DoubleMapChangesNothing ==
    [][DoubleMapStep =>
           /\ wrappers' = wrappers
           /\ mapped_memory_' = mapped_memory_
           /\ pg_tracked' = pg_tracked
           /\ pg_dirty' = pg_dirty
           /\ fill_log' = fill_log
           /\ pending' = pending
           /\ streamVars' = streamVars]_vars

\* A second map has returned the driver's pointer for a memory the page-guard
\* manager tracks since the first map.
C26_Witness ==
    \E m \in Mems :
        /\ wrappers[m].mapped_data
        /\ pg_tracked[m] > 0
        /\ host_ptr[m].via = "driver"

\* No value occurs twice in the sequence.
NoRepeat(seq) ==
    \A i, j \in 1 .. Len(seq) : seq[i] = seq[j] => i = j

\* C25: in page-guard mode one call to PreProcess_vkFlushMappedMemoryRanges
\* invokes ProcessMemoryEntry at most once per distinct memory object, for
\* every list of ranges passed, whatever the order in which the ranges of one
\* object appear.
C25_FlushProcessesOncePerObject ==
    (memory_tracking_mode_ = "kPageGuard" /\ page_guard_) =>
        \A ranges \in FlushLists :
            (\A i \in 1 .. Len(ranges) : ranges[i] \in FlushRange) =>
                NoRepeat(FlushProcessed(ranges, NullMemory))

\* A thread enters one of the packet writers, or a memory hook that calls
\* WriteFillMemoryCmd, and the call reaches its test of the Write bit.
WriterEntryStep(w) ==
    \/ \E c \in HookCompressedSizes : EndApiCallTrace_Begin(w, c)
    \/ \E n \in HookParamSizes : WriteDisplayMessageCmd(w, n)
    \/ \E id \in GuardMems : WriteResizeWindowCmd(w, id, 1, 1)
    \/ \E ranges \in GuardLists, c \in HookCompressedSizes :
           PreProcess_vkFlushMappedMemoryRanges(w, ranges, c)
    \/ \E m \in GuardMems, c \in HookCompressedSizes :
           PreProcess_vkUnmapMemory(w, m, c)
    \/ \E c \in HookCompressedSizes : PreProcess_vkQueueSubmit(w, c)

\* Thread w is at, or inside, the critical section of a writer.
AtStream(w) ==
    pc[w] \in {"call_lock", "meta_lock", "call_write", "meta_write"}

\* C27: a call of EndApiCallTrace, WriteDisplayMessageCmd,
\* WriteResizeWindowCmd or of a memory hook (and the WriteFillMemoryCmd calls
\* it makes) that finds the Write bit clear appends nothing to any file and
\* does not touch the stream: no packet is staged, the thread does not go
\* to the critical section, file_stream_ and file_lock_ stay as they are, and
\* the (null) stream is not dereferenced.
C27_WriteGuard ==
    [][\A w \in MemThreads :
           (~WriteOn /\ WriterEntryStep(w)) =>
               /\ files' = files
               /\ file_stream_' = file_stream_
               /\ file_lock_' = file_lock_
               /\ pending' = pending
               /\ ~AtStream(w)'
               /\ fault' => (memory_tracking_mode_ = "kPageGuard"
                             /\ ~page_guard_)]_vars

\* With capture started in Track-only mode and no file opened yet, a memory
\* hook has called WriteFillMemoryCmd, the call it preceded has ended, and a
\* metadata writer has been called.
C27_Witness ==
    /\ status = "ready"
    /\ ~fault
    /\ ~WriteOn
    /\ files = << >>
    /\ \E k \in 1 .. Len(fill_log) : ~fill_log[k].write
    /\ \E w \in MemThreads :
           /\ pc[w] = "idle"
           /\ \E i \in 1 .. Len(ops[w]) : ops[w][i].kind = "FunctionCall"
           /\ \E i \in 1 .. Len(ops[w]) : ops[w][i].kind = "ResizeWindowCommand"

\* ------------------------------------------------------------------------
\* Descriptor-update-template claims (SpecTmpl)
\* ------------------------------------------------------------------------

\* The entries of entries whose type is in types, as UpdateTemplateEntryInfo,
\* in their order.
RECURSIVE KindInfos(_, _)
KindInfos(entries, types) ==
    IF entries = << >> THEN << >>
    ELSE (IF Head(entries).descriptorType \in types
          THEN << EntryInfo(Head(entries)) >> ELSE << >>)
             \o KindInfos(Tail(entries), types)

\* The descriptors of those entries.
RECURSIVE KindCount(_, _)
KindCount(entries, types) ==
    IF entries = << >> THEN 0
    ELSE (IF Head(entries).descriptorType \in types
          THEN Head(entries).descriptorCount ELSE 0)
             + KindCount(Tail(entries), types)

\* The three lists and the three counts hold the entries read so far that
\* are of their kind, and nothing else.
ListsHoldTheirKind ==
    /\ info.image_info = KindInfos(create_info, ImageTypes)
    /\ info.buffer_info = KindInfos(create_info, BufferTypes)
    /\ info.texel_buffer_view = KindInfos(create_info, TexelBufferTypes)
    /\ info.image_info_count = KindCount(create_info, ImageTypes)
    /\ info.buffer_info_count = KindCount(create_info, BufferTypes)
    /\ info.texel_buffer_view_count = KindCount(create_info, TexelBufferTypes)

IsDisabled == status # "constructed" /\ capture_mode_ = kModeDisabled

OpensSucceeded == status = "ready" /\ ~open_failed

\* Frame f lies in one of the configured ranges [first, first + count - 1].
InConfiguredRange(f) ==
    \E i \in 1 .. Len(cfg_ranges) :
        /\ cfg_ranges[i].first <= f
        /\ f <= cfg_ranges[i].first + cfg_ranges[i].total - 1

\* More than one range, or the first range does not start at frame 1.
NeedsTracking ==
    \/ Len(cfg_ranges) > 1
    \/ (Len(cfg_ranges) = 1 /\ cfg_ranges[1].first # kFirstFrame)

\* C2: given legal trim ranges and successful file opens, the Write bit is set
\* during frame f exactly when f lies in the union of the configured ranges.
C2_WriteFramesAreRangeUnion ==
    (BetweenFrames /\ OpensSucceeded /\ cfg_ranges # << >>) =>
        (WriteOn <=> InConfiguredRange(frame_no))

\* Two ranges with a gap were captured and the frame after the last has begun.
C2_Witness ==
    /\ BetweenFrames /\ OpensSucceeded
    /\ Len(cfg_ranges) = 2
    /\ cfg_ranges[1].first + cfg_ranges[1].total < cfg_ranges[2].first
    /\ frame_no = LastFrame(cfg_ranges) + 1
    /\ Len(files) = 2
    /\ ~WriteOn

\* C3 (as claimed): the Track bit is set during frame f exactly when
\* 1 <= f < first frame of the last range, this interval being used iff there
\* is more than one range or the first range does not start at frame 1.
C3_TrackUntilLastRangeStarts ==
    (BetweenFrames /\ OpensSucceeded) =>
        (TrackOn <=> (NeedsTracking
                          /\ frame_no < cfg_ranges[Len(cfg_ranges)].first))

\* C3 (amended): the Track bit is set during frame f exactly when
\* 1 <= f <= last frame of the last range, this interval being used iff there
\* is more than one range or the first range does not start at frame 1: Track
\* stays set while the last range is written and is cleared when it ends.
C3_TrackUntilLastRangeEnds ==
    (BetweenFrames /\ OpensSucceeded) =>
        (TrackOn <=> (NeedsTracking /\ frame_no <= LastFrame(cfg_ranges)))

\* The last range is being written with the Track bit still set.
C3_Witness ==
    /\ BetweenFrames /\ OpensSucceeded
    /\ NeedsTracking
    /\ frame_no = cfg_ranges[Len(cfg_ranges)].first
    /\ capture_mode_ = kModeWriteAndTrack

\* Initialize has returned success and no EndFrame has been called yet.
JustInitialized ==
    status = "ready" /\ frame_no = kFirstFrame /\ BetweenFrames

\* C11: after a successful Initialize the capture mode is Write when there are
\* no trim ranges, Write when the only range starts at frame 1, Write|Track
\* when the first of several ranges starts at frame 1, and Track, with no
\* capture file opened, when the first range starts after frame 1.
C11_InitialModeSelection ==
    JustInitialized =>
        IF cfg_ranges = << >>
        THEN capture_mode_ = kModeWrite /\ Len(files) = 1 /\ file_stream_ = 1
        ELSE IF cfg_ranges[1].first = kFirstFrame
             THEN /\ capture_mode_ = IF Len(cfg_ranges) = 1
                                     THEN kModeWrite ELSE kModeWriteAndTrack
                  /\ Len(files) = 1 /\ file_stream_ = 1
             ELSE /\ capture_mode_ = kModeTrack
                  /\ files = << >> /\ file_stream_ = 0

\* Initialize succeeded with two ranges, the first starting at frame 1.
C11_Witness ==
    /\ JustInitialized
    /\ Len(cfg_ranges) = 2
    /\ cfg_ranges[1].first = kFirstFrame
    /\ capture_mode_ = kModeWriteAndTrack
    /\ state_tracker_

\* One step of EndFrame, compared with what the end-of-range rule requires.
EndOfRangeStep ==
    /\ (current_frame_' = current_frame_ + 1 /\ WriteOn) =>
           LET r == trim_current_range_ + 1 IN
           /\ trim_enabled_
           /\ trim_ranges_'[r].total = trim_ranges_[r].total - 1
           /\ IF trim_ranges_'[r].total = 0
              THEN /\ capture_mode_' = capture_mode_ \ kModeWrite
                   /\ \E w \in Workers : pc'[w] = "ef_close"
              ELSE /\ UNCHANGED << capture_mode_, file_stream_,
                                   trim_current_range_, trim_enabled_,
                                   state_tracker_, compressor_ >>
                   /\ BetweenFrames'
    /\ \A w \in Workers :
           (pc[w] = "ef_close" /\ pc'[w] # "ef_close") =>
               file_stream_' = 0 /\ pc'[w] = "ef_advance"
    /\ \A w \in Workers :
           (pc[w] = "ef_advance" /\ pc'[w] # "ef_advance") =>
               /\ trim_current_range_' = trim_current_range_ + 1
               /\ IF trim_current_range_' >= Len(trim_ranges_)
                  THEN /\ capture_mode_' = kModeDisabled
                       /\ ~trim_enabled_'
                       /\ ~state_tracker_'
                       /\ ~compressor_'
                  ELSE UNCHANGED << capture_mode_, trim_enabled_,
                                    state_tracker_, compressor_ >>

\* C12: an EndFrame with Write set and trim enabled decrements the active
\* range's remaining count; at 0 the Write bit is cleared, the stream is
\* closed and the range index advances by one, and with no further range the
\* mode becomes Disabled, trim is disabled and the state tracker and the
\* compressor are dropped; while the count stays above 0 the mode, the stream
\* and the range index are unchanged.
C12_EndOfRange == [][EndOfRangeStep]_vars

\* The last of two ranges has ended: capture is disabled, everything dropped.
C12_Witness ==
    /\ BetweenFrames /\ OpensSucceeded
    /\ Len(cfg_ranges) = 2
    /\ trim_current_range_ = 2
    /\ capture_mode_ = kModeDisabled
    /\ ~trim_enabled_ /\ ~state_tracker_ /\ ~compressor_
    /\ file_stream_ = 0

\* A read of trim_ranges_[trim_current_range_] is due: the Write and the
\* Track branch of the next EndFrame, and the file name ActivateTrimming
\* builds from the range.
ReadsCurrentRange ==
    \/ status # "constructed" /\ trim_enabled_ /\ (WriteOn \/ TrackOn)
    \/ \E w \in Workers : pc[w] = "act_open"

\* C32: whenever EndFrame or ActivateTrimming reads
\* trim_ranges_[trim_current_range_] the index is less than the number of
\* trim ranges; whenever the Write bit is set with trim enabled the remaining
\* count of the active range is greater than 0; no count is ever below 0.
C32_RangeIndexValid ==
    /\ ReadsCurrentRange => trim_current_range_ < Len(trim_ranges_)
    /\ (status # "constructed" /\ trim_enabled_ /\ WriteOn) =>
           /\ trim_current_range_ < Len(trim_ranges_)
           /\ CurrentRange.total > 0
    /\ \A i \in 1 .. Len(trim_ranges_) : trim_ranges_[i].total >= 0

\* The second of two ranges is being written and one of its two frames has
\* been counted off.
C32_Witness ==
    /\ BetweenFrames /\ OpensSucceeded
    /\ trim_enabled_ /\ WriteOn
    /\ trim_current_range_ = 1
    /\ cfg_ranges[2].total = 2
    /\ CurrentRange.total = 1

\* Calls of ActivateTrimming made for the i-th configured range.
ActivationsOf(i) ==
    { k \in 1 .. Len(activations) : activations[k].range = i }

\* Configured ranges whose first frame is greater than 1.
LaterRanges ==
    { i \in 1 .. Len(cfg_ranges) : cfg_ranges[i].first > kFirstFrame }

\* The EndFrame call that advanced the frame counter to f has returned.
FrameReached(f) == BetweenFrames /\ frame_no >= f

\* Initialize succeeded and no activation for a range before the i-th failed.
NoEarlierFailure(i) ==
    /\ status = "ready"
    /\ \A k \in 1 .. Len(activations) :
           activations[k].range < i => activations[k].opened

\* The file the k-th call of ActivateTrimming opened.
FileOfActivation(k) ==
    CHOOSE fi \in 1 .. Len(files) :
        /\ files[fi].by = "ActivateTrimming"
        /\ files[fi].range = cfg_ranges[activations[k].range].first

\* What every call of ActivateTrimming does: it is made for a range with
\* first frame F > 1 in the EndFrame call that advanced the counter to F, at
\* most once per range; on success a new file is opened, the file header is
\* written, then the Write bit is set, then the snapshot is written.
ActivationShape ==
    /\ \A k \in 1 .. Len(activations) :
           LET a == activations[k] IN
           /\ a.range \in LaterRanges
           /\ a.frame = cfg_ranges[a.range].first
           /\ Cardinality(ActivationsOf(a.range)) = 1
           /\ a.opened =>
                  /\ \E fi \in 1 .. Len(files) :
                         /\ files[fi].by = "ActivateTrimming"
                         /\ files[fi].range = cfg_ranges[a.range].first
                  /\ LET d == files[FileOfActivation(k)].data IN
                     /\ \A i \in 1 .. Len(d) :
                            /\ i = 1 => d[i].e.k = "file_header"
                            /\ i = 2 => d[i].e.k = "options"
                            /\ i > 2 => d[i].e.k = "state"
                     /\ (BetweenFrames \/ k < Len(activations)) =>
                            Len(d) = 2 + StatePackets
           /\ ~a.opened =>
                  \A fi \in 1 .. Len(files) :
                      files[fi].range # cfg_ranges[a.range].first
    /\ \A w \in Workers :
           /\ pc[w] \in {"act_open", "act_header"} => ~WriteOn
           /\ pc[w] = "act_state" =>
                  /\ WriteOn
                  /\ Len(files[file_stream_].data) >= 2

C14_DisabledHoldsNoResource ==
    (BetweenFrames /\ status # "constructed" /\ capture_mode_ = kModeDisabled) =>
        /\ file_stream_ = 0
        /\ ~compressor_
        /\ ~page_guard_
        /\ ~state_tracker_

\* ------------------------------------------------------------------------
\* Thread-id claims
\* ------------------------------------------------------------------------

\* Logical ids held in id_map_.
IssuedIds == { id_map_[o] : o \in { p \in OsTids : id_map_[p] # 0 } }

ObservedOsTids == { o \in OsTids : id_map_[o] # 0 }

\* Threads that have observed a logical id (alive or exited).
Observers == { t \in Threads : seen_ids[t] # {} }

\* C6: repeated accesses from one thread observe one logical id, and two
\* distinct threads, also one created after another has exited, never observe
\* the same logical id (an id once issued is never reused).
C6_ThreadIdStableInjective ==
    /\ \A t \in Threads : Cardinality(seen_ids[t]) <= 1
    /\ \A t, u \in Observers : t # u => seen_ids[t] \cap seen_ids[u] = {}

\* C7: the issued logical ids are exactly 1..n for the n OS thread ids
\* observed so far, assigned in observation order; 0 is never issued, no value
\* is skipped or issued twice.
C7_DenseIdsInObservationOrder ==
    /\ IssuedIds = 1 .. Cardinality(ObservedOsTids)
    /\ \A o, p \in ObservedOsTids : o # p => id_map_[o] # id_map_[p]
    /\ Len(obs_order) = Cardinality(ObservedOsTids)
    /\ \A i \in 1 .. Len(obs_order) : id_map_[obs_order[i]] = i
    /\ \A t \in Threads : 0 \notin seen_ids[t]
    /\ count_lock_ = NoThread => thread_count_ = Cardinality(ObservedOsTids)

\* Two threads raced through their first access and both hold an id.
C7_Witness ==
    \E t, u \in Threads :
        /\ t # u
        /\ life[t] = "alive" /\ life[u] = "alive"
        /\ thread_id_[t] = 1 /\ thread_id_[u] = 2
        /\ thread_count_ = 2

\* ------------------------------------------------------------------------
\* Capture-info claims (SpecInfo)
\* ------------------------------------------------------------------------

\* C35: for every meta_data_id passed to FileProcessorInfo::ProcessMetaData
\* the index meta_data_id & 0x0000ffff used to read metadata_strings is
\* within the bounds of the 32-entry table, and the call returns exactly the
\* result of the base FileProcessor::ProcessMetaData.
C35_NameLookupInBounds ==
    /\ [](info_pc = "meta" =>
              MetaDataIndex(meta_data_id) < Len(metadata_strings))
    /\ [][ProcessMetaData =>
              /\ info_pc' = "read"
              /\ info_return' = base_result]_vars
====
